---- MODULE Spec2Model ----
(***************************************************************************)
(* Model of the GhostAgent runtime: the context manager (prune, rolling    *)
(* window), the upstream router (LLMClient.chat_completion) and the        *)
(* reasoning loop (GhostAgent.handle_chat).                                *)
(***************************************************************************)
EXTENDS Integers, Sequences, FiniteSets, TLC

VARIABLES
    cmMsgs,       \* the message list handed to the context manager
    cmMax,        \* max_tokens
    cmOut,        \* the list it returned
    cmOp          \* "input" before the call, then "prune" or "window"

cmVars == <<cmMsgs, cmMax, cmOut, cmOp>>

VARIABLES
    rSize,        \* number of nodes configured in each pool
    rIdx,         \* _swarm_index, _worker_index, _vision_index
    rPc,          \* "idle", "pool", "main", "done"
    rClass,       \* class of the call in progress
    rSel,         \* node picked for the next pool attempt
    rTried,       \* tried_nodes
    rIter,        \* iterations of the pool loop completed
    rAttempt,     \* attempt of the main loop
    rLast,        \* pool and outcome of the last POST of this call
    rPoolPosts,   \* POSTs sent to pool nodes in this call
    rMainPosts,   \* POSTs sent to the main pool in this call
    rPoolFails,   \* kinds of failure of the pool attempts of this call (as a set)
    rWait,        \* last backoff slept before a main retry (0: none)
    rResult,      \* "none", "ok", "raise"
    rErr,         \* what was raised
    rCalls        \* calls started so far

rVars == <<rSize, rIdx, rPc, rClass, rSel, rTried, rIter, rAttempt, rLast,
           rPoolPosts, rMainPosts, rPoolFails, rWait, rResult, rErr, rCalls>>

VARIABLES
    lCfg,         \* the request: use_plan, meta intent, stream flag, and what the model may emit
    mLeft,        \* messages with tool calls the model will still emit (-1: no limit)
    lPc,          \* "top", "respond", "retry", "gather", "post", "done"
    lTurn,        \* turn of the for loop, 0-based
    force_stop,
    force_final_response,
    last_was_failure,
    execution_failure_count,
    redundancy_strikes,
    seen_tools,   \* set of a_hash
    tool_usage,   \* per tool name
    plan,         \* required_tool, next_action_id and thought_content left by the planner
    tool_tasks,   \* tool_call_metadata of the invocations scheduled this turn
    tools_run,    \* tools_run_this_turn is non-empty
    final_ai,     \* what final_ai_content holds: "empty", "text", "critical"
    hRan,         \* history: invocations scheduled so far, per tool
    hOnce,        \* history: non-mutating calls run since the last mutating call
    hTwice,       \* history: those run more than once since then
    hIssued,      \* history: per call, turns in which it was issued since then
    hThird,       \* history: what happened to a third-turn issuance
    hFail3,       \* history: execute has failed three times in a row
    hAfterFail3,  \* history: tools run and LLM calls (a retry not counted) made after that
    hOverflow,    \* history: the retry after a context overflow failed; upstream calls since
    hFsTurn,      \* history: turn in which force_stop was set (-1: not set)
    hActTurn      \* history: turn of the last planner call, responder call or tool run

lVars == <<lCfg, mLeft, lPc, lTurn, force_stop, force_final_response, last_was_failure,
           execution_failure_count, redundancy_strikes, seen_tools, tool_usage, plan,
           tool_tasks, tools_run, final_ai, hRan, hOnce, hTwice, hIssued,
           hThird, hFail3, hAfterFail3, hOverflow, hFsTurn, hActTurn>>

VARIABLES
    tPc,          \* "off", "emit", "run", "done", "raised"
    tCalls,       \* the tool_calls of the assistant message of the turn
    tMeta,        \* tool_call_metadata: the invocations scheduled, with their ids
    tFinished,    \* the scheduled invocations (indexes of tMeta) in the order they completed, and how
    tMsgs,        \* the tool-role messages appended to messages: tool_call_id and what the content is
    tEfc,         \* execution_failure_count at the start of the turn
    tUsage,       \* tool_usage at the start of the turn
    tCrit         \* what the critic's call came back with, per call it was asked about

tVars == <<tPc, tCalls, tMeta, tFinished, tMsgs, tEfc, tUsage, tCrit>>

VARIABLES
    aSem,         \* value of agent_semaphore
    aWaiting,     \* requests waiting in `async with self.agent_semaphore`
    aLoop,        \* requests inside the block, running the code of handle_chat
    aCall,        \* requests inside the block, awaiting a planner or responder call
    aStream,      \* requests that returned stream_wrapper(): the streamed call is under way
    aDone         \* requests that are over

aVars == <<aSem, aWaiting, aLoop, aCall, aStream, aDone>>

VARIABLES
    pCfg,         \* the request: planning in use (use_plan and not is_conversational), body["stream"]
    pPc,          \* "off", "plan", "assemble", "respond", "retry", "done", "raised"
    pMsgs,        \* messages, the working message list
    pFfr,         \* force_final_response
    pReply,       \* what the planner call of the turn came back with
    pPlan,        \* thought_content, next_action_id and required_tool
    pSent         \* the responder requests posted in the turn, each with the working list it was built from

pVars == <<pCfg, pPc, pMsgs, pFfr, pReply, pPlan, pSent>>

VARIABLES
    fLinks,       \* the symbolic links that exist in the sandbox
    fOp,          \* operation of the file_system call
    fPath,        \* its path argument
    fSecond,      \* the new name of a rename or move
    fPc,          \* "off", "call", "done"
    fResult,      \* "none", "security_error", "error", "done"
    fAccessed     \* resolved paths at which the call read, created, changed or deleted

fVars == <<fLinks, fOp, fPath, fSecond, fPc, fResult, fAccessed>>

VARIABLES
    bCfg,         \* who started the request and how the agent is configured
    bPc,          \* "off", "turn", "post", "returned", "raised"
    bTurn,        \* turn of the loop
    bFlags,       \* force_stop, last_was_failure, forget_was_called, ...
    bEfc,         \* execution_failure_count, counted up to FailLimit
    bDispatched   \* background tasks added by the request

bVars == <<bCfg, bPc, bTurn, bFlags, bEfc, bDispatched>>

VARIABLES
    sKind,        \* "profile" or "playbook": the store
    sDir,         \* the directory: which inode each of the two names is, 0 for none
    sInode,       \* the chunks written to each inode, each the version it is of
    sNextInode,   \* inodes created so far
    sSaves,       \* save calls started so far
    sLock,        \* thread that holds the store's _lock, 0 for none
    sPc,          \* position of each thread
    sLocal,       \* per thread: version being saved, open inode, chunks read
    sResults      \* what the completed reads returned

sVars == <<sKind, sDir, sInode, sNextInode, sSaves, sLock, sPc, sLocal, sResults>>

VARIABLES
    xIntent,      \* per request: has_coding_intent
    xCache,       \* context.cached_sandbox_state and the request that stored it
    xDisk,        \* how often the sandbox has been changed
    xPc,          \* per request: "off", "turn", "listing", "llm", "tool", "done"
    xTurn,        \* per request: turn of its loop
    xSeen,        \* per request: its seen_tools
    xListing,     \* per request: the sandbox_state of its turn
    xRunning,     \* per request: the tool it is running
    xForeign      \* reads and changes of a listing stored by another request

xVars == <<xIntent, xCache, xDisk, xPc, xTurn, xSeen, xListing, xRunning, xForeign>>

VARIABLES
    wNodes,       \* swarm nodes configured
    wPad,         \* whether the context has a scratchpad
    wTasks,       \* the tasks argument of the delegate_to_swarm call
    wLegacy,      \* its instruction / input_data / output_key arguments
    wPc,          \* "off", "call", "returned"
    wResult,      \* what the call returned
    wIdx,         \* the client's _swarm_index
    wWorkers,     \* the worker tasks created, in order
    wWrites       \* per worker: the values it has set under its output_key

wVars == <<wNodes, wPad, wTasks, wLegacy, wPc, wResult, wIdx, wWorkers, wWrites>>

VARIABLES
    gOn,          \* whether a task tree is looked at
    gParent,      \* parent of each node of the tree, 0 for the root
    gStatus,      \* status of each node
    gLast         \* the last operation on the tree

gVars == <<gOn, gParent, gStatus, gLast>>

VARIABLES
    iMsgs,        \* body["messages"]: the incoming transcript
    iOut,         \* messages after intake
    iPc           \* "off", "request", "taken"

iVars == <<iMsgs, iOut, iPc>>

VARIABLES
    uFile,        \* user_profile.json: what it holds under each key
    uOp,          \* per thread: the call it makes, "update" or "delete"
    uPc,          \* per thread: "call", "loaded", "done"
    uData         \* per thread: data, the dict load() returned to it

uVars == <<uFile, uOp, uPc, uData>>

vars == <<cmVars, rVars, lVars, tVars, aVars, pVars, fVars, bVars, sVars, xVars, wVars, gVars, iVars, uVars>>

\* What the actions of one component leave alone.
CmRest == <<rVars, lVars, tVars, aVars, pVars, fVars, bVars, sVars, xVars, wVars, gVars, iVars, uVars>>
RRest == <<cmVars, lVars, tVars, aVars, pVars, fVars, bVars, sVars, xVars, wVars, gVars, iVars, uVars>>
LRest == <<cmVars, rVars, tVars, aVars, pVars, fVars, bVars, sVars, xVars, wVars, gVars, iVars, uVars>>
TRest == <<cmVars, rVars, lVars, aVars, pVars, fVars, bVars, sVars, xVars, wVars, gVars, iVars, uVars>>
ARest == <<cmVars, rVars, lVars, tVars, pVars, fVars, bVars, sVars, xVars, wVars, gVars, iVars, uVars>>
PRest == <<cmVars, rVars, lVars, tVars, aVars, fVars, bVars, sVars, xVars, wVars, gVars, iVars, uVars>>
FRest == <<cmVars, rVars, lVars, tVars, aVars, pVars, bVars, sVars, xVars, wVars, gVars, iVars, uVars>>
BRest == <<cmVars, rVars, lVars, tVars, aVars, pVars, fVars, sVars, xVars, wVars, gVars, iVars, uVars>>
SRest == <<cmVars, rVars, lVars, tVars, aVars, pVars, fVars, bVars, xVars, wVars, gVars, iVars, uVars>>
XRest == <<cmVars, rVars, lVars, tVars, aVars, pVars, fVars, bVars, sVars, wVars, gVars, iVars, uVars>>
WRest == <<cmVars, rVars, lVars, tVars, aVars, pVars, fVars, bVars, sVars, xVars, gVars, iVars, uVars>>
GRest == <<cmVars, rVars, lVars, tVars, aVars, pVars, fVars, bVars, sVars, xVars, wVars, iVars, uVars>>
IRest == <<cmVars, rVars, lVars, tVars, aVars, pVars, fVars, bVars, sVars, xVars, wVars, gVars, uVars>>
URest == <<cmVars, rVars, lVars, tVars, aVars, pVars, fVars, bVars, sVars, xVars, wVars, gVars, iVars>>

(***************************************************************************)
(* Part 1.  Context manager: src/src/ghost_agent/core/agent.py 105-162     *)
(***************************************************************************)

\* Bound: longest message list given to prune / rolling_window.
MaxLen == 4

\* agent.py:139  remaining_budget = max_tokens - base_tokens - 500
SafetyBuffer == 500

Roles == {"system", "user", "assistant", "tool"}

\* A content is a text of len characters; v tells apart two texts of the
\* same length (dict equality in the code compares the text, not its length).
Contents == { [len |-> 3, v |-> 0], [len |-> 300, v |-> 0], [len |-> 3000, v |-> 0] }

Messages == [role : Roles, content : Contents]

MaxTokensChoices == {0, 400, 600, 1200, 2600}

\* token_counter.py:68-87, the fallback estimate: 0 for the empty text,
\* len(text) // 3 otherwise.
EstimateTokens(c) == IF c.len = 0 THEN 0 ELSE c.len \div 3

RECURSIVE SumTokens(_)
SumTokens(ms) ==
    IF ms = <<>> THEN 0
    ELSE EstimateTokens(Head(ms).content) + SumTokens(Tail(ms))

IsSystem(m) == m.role = "system"
IsNotSystem(m) == m.role # "system"

SystemMsgs(ms) == SelectSeq(ms, IsSystem)

\* Index of the most recent user message, 0 when there is none
\* (next((m for m in reversed(messages) if role == "user"), None)).
LastUserIdx(ms) ==
    LET us == { i \in 1..Len(ms) : ms[i].role = "user" }
    IN  IF us = {} THEN 0 ELSE CHOOSE i \in us : \A j \in us : j <= i

\* agent.py:144-158, the walk over reversed(messages).  i is the position
\* being visited, budget the remaining budget, lu the index of last_user
\* (0 for None).  The result is reversed(pruned_history), i.e. chronological.
\* `m == last_user` is dict equality, so any message equal to the last user
\* message takes the "add it instantly" branch.
RECURSIVE PruneWalk(_, _, _, _)
PruneWalk(ms, i, budget, lu) ==
    IF i = 0 THEN <<>>
    ELSE IF ms[i].role = "system" THEN PruneWalk(ms, i - 1, budget, lu)
    ELSE IF lu # 0 /\ ms[i] = ms[lu]
         THEN Append(PruneWalk(ms, i - 1, budget, lu), ms[i])
    ELSE IF budget - EstimateTokens(ms[i].content) >= 0
         THEN Append(PruneWalk(ms, i - 1,
                               budget - EstimateTokens(ms[i].content), lu), ms[i])
    ELSE <<>>

\* agent.py:125-162  GhostAgent._prune_context
PruneContext(ms, maxTok) ==
    LET lu     == LastUserIdx(ms)
        sys    == SystemMsgs(ms)
        base   == SumTokens(sys)
                  + (IF lu # 0 THEN EstimateTokens(ms[lu].content) ELSE 0)
        budget == maxTok - base - SafetyBuffer
    IN  IF SumTokens(ms) < maxTok THEN ms
        ELSE IF budget < 0
             THEN (IF lu # 0 THEN Append(sys, ms[lu]) ELSE sys)
        ELSE sys \o PruneWalk(ms, Len(ms), budget, lu)

\* A window that passes over a message that does not fit and goes on
\* with the older ones.
RECURSIVE WindowSkips(_, _, _, _)
WindowSkips(hist, i, cur, maxTok) ==
    IF i = 0 THEN <<>>
    ELSE IF cur + EstimateTokens(hist[i].content) > maxTok
         THEN WindowSkips(hist, i - 1, cur, maxTok)
    ELSE Append(WindowSkips(hist, i - 1,
                            cur + EstimateTokens(hist[i].content), maxTok), hist[i])

\* agent.py:115-122, the sliding window over reversed(raw_history).
RECURSIVE WindowWalk(_, _, _, _)
WindowWalk(hist, i, cur, maxTok) ==
    IF i = 0 THEN <<>>
    ELSE IF cur + EstimateTokens(hist[i].content) > maxTok THEN <<>>
    ELSE Append(WindowWalk(hist, i - 1,
                           cur + EstimateTokens(hist[i].content), maxTok), hist[i])

\* agent.py:105-123  GhostAgent.process_rolling_window
ProcessRollingWindow(ms, maxTok) ==
    IF ms = <<>> THEN <<>>
    ELSE LET sys  == SystemMsgs(ms)
             hist == SelectSeq(ms, IsNotSystem)
         IN  sys \o WindowWalk(hist, Len(hist), SumTokens(sys), maxTok)

RECURSIVE SeqsUpTo(_, _)
SeqsUpTo(S, n) ==
    IF n = 0 THEN { <<>> }
    ELSE LET prev == SeqsUpTo(S, n - 1)
         IN  prev \cup { Append(s, x) : s \in { t \in prev : Len(t) = n - 1 }, x \in S }

CmInit ==
    /\ cmMsgs \in SeqsUpTo(Messages, MaxLen)
    /\ cmMax \in MaxTokensChoices
    /\ cmOut = <<>>
    /\ cmOp = "input"

CallPrune ==
    /\ cmOp = "input"
    /\ cmOut' = PruneContext(cmMsgs, cmMax)
    /\ cmOp' = "prune"
    /\ UNCHANGED <<cmMsgs, cmMax>>
    /\ UNCHANGED CmRest

CallRollingWindow ==
    /\ cmOp = "input"
    /\ cmOut' = ProcessRollingWindow(cmMsgs, cmMax)
    /\ cmOp' = "window"
    /\ UNCHANGED <<cmMsgs, cmMax>>
    /\ UNCHANGED CmRest

CmNext == CallPrune \/ CallRollingWindow

\* The context manager is not in use.
CmIdle ==
    /\ cmMsgs = <<>>
    /\ cmMax = 0
    /\ cmOut = <<>>
    /\ cmOp = "off"

Contains(s, m) == \E i \in 1..Len(s) : s[i] = m

\* C1: for every msgs with at least one user message and every max_tokens,
\* the list returned by prune contains the first system message of msgs and
\* the most recent user message of msgs.
C1_PruneKeepsSystemAndLastUser ==
    (cmOp = "prune" /\ LastUserIdx(cmMsgs) # 0) =>
        /\ (SystemMsgs(cmMsgs) # <<>> => Contains(cmOut, Head(SystemMsgs(cmMsgs))))
        /\ Contains(cmOut, cmMsgs[LastUserIdx(cmMsgs)])

(***************************************************************************)
(* Part 2.  Upstream router: src/src/ghost_agent/core/llm.py               *)
(***************************************************************************)

\* Bound: most nodes configured in one pool.
MaxNodes == 2
\* Bound: chat_completion calls made one after the other on one client
\* (the round-robin indexes persist between them).
MaxRouterCalls == 2
\* Nodes per pool, and round-robin picks other calls make during one POST,
\* where calls run concurrently.
PoolNodes == 3
MaxOtherGets == 2

\* llm.py:269  for attempt in range(10)
MainAttempts == 10
\* llm.py:277  wait_time = min(2 ** (attempt + 1), 30)
BackoffCap == 30

PoolKinds == {"swarm", "worker", "vision"}
CallClasses == {"main"} \cup PoolKinds

\* Model labels and model hints are texts; the affinity test of
\* get_*_node is a case-insensitive substring test.
NodeLabel(k) == IF k % 2 = 1 THEN <<"q", "a">> ELSE <<"q", "b">>
Hints == { <<>>, <<"q">>, <<"Q", "B">>, <<"z">> }

Lower(c) == IF c = "Q" THEN "q" ELSE IF c = "B" THEN "b" ELSE c
LowerText(t) == [i \in 1..Len(t) |-> Lower(t[i])]

IsSubstring(a, b) ==
    \E off \in 0..(Len(b) - Len(a)) : \A i \in 1..Len(a) : b[off + i] = a[i]

\* llm.py:102-106 / 117-121 / 135-139: first node whose model contains the
\* target, 0 when the target is empty (falsy) or matches none.
AffinityNode(n, target) ==
    LET hits == { k \in 1..n : IsSubstring(LowerText(target), LowerText(NodeLabel(k))) }
    IN  IF target = <<>> \/ hits = {} THEN 0
        ELSE CHOOSE k \in hits : \A j \in hits : k <= j

\* llm.py:98-110, 112-128, 130-146  get_swarm_node / get_vision_node /
\* get_worker_node on a pool of n >= 1 nodes with round-robin index idx
\* (0-based): the chosen node (1-based) and the new index.
GetNode(n, idx, target) ==
    IF AffinityNode(n, target) # 0
    THEN [node |-> AffinityNode(n, target), idx |-> idx]
    ELSE [node |-> idx + 1, idx |-> (idx + 1) % n]

InSeq(x, s) == \E i \in 1..Len(s) : s[i] = x

\* llm.py:208-211  while node in tried_nodes and loop_breaker < len(clients)
RECURSIVE SkipTried(_, _, _, _)
SkipTried(n, sel, tried, lb) ==
    IF InSeq(sel.node, tried) /\ lb < n
    THEN SkipTried(n, GetNode(n, sel.idx, <<>>), tried, lb + 1)
    ELSE sel

\* A pool loop that posts to the node it holds without looking at
\* tried_nodes.
PickHeld(n, sel, tried) == sel

\* llm.py:204-213: the node attempted in one iteration of the pool loop,
\* starting from the node picked before the iteration.
PickForAttempt(n, sel, tried) ==
    SkipTried(n, IF InSeq(sel.node, tried) THEN GetNode(n, sel.idx, <<>>) ELSE sel,
              tried, 0)

\* Outcomes of one POST + raise_for_status.
TransientKinds == {"ConnectError", "ReadError", "WriteError", "RemoteProtocolError"}
HttpKinds == {"Http400Context", "Http500"}
Outcomes == {"ok", "Timeout", "Other"} \cup TransientKinds \cup HttpKinds

\* The kind of a failed POST.
FailureKind(o) ==
    IF o \in TransientKinds THEN "transient" ELSE IF o \in HttpKinds THEN "http" ELSE "other"

\* A main loop that also retries a timeout.
RetriesTimeoutToo(o) == o \in TransientKinds \cup {"Timeout"}

\* A main loop that also retries an HTTP error status.
RetriesHttpToo(o) == o \in TransientKinds \cup HttpKinds

\* llm.py:274  except (RemoteProtocolError, ReadError, WriteError, ConnectError)
RetriedOnMain(o) == o \in TransientKinds

\* A router whose vision branch falls through to the main loop as well.
AlwaysFallsBack(kind) == TRUE

\* llm.py:229, 267 fall through to the main loop; llm.py:191 raises.
FallsBackToMain(kind) == kind \in {"swarm", "worker"}

Min(a, b) == IF a < b THEN a ELSE b
RECURSIVE Pow2(_)
Pow2(k) == IF k = 0 THEN 1 ELSE 2 * Pow2(k - 1)
\* A backoff that keeps doubling.
WaitUncapped(attempt) == Pow2(attempt + 1)

\* llm.py:277
WaitTime(attempt) == Min(Pow2(attempt + 1), BackoffCap)

NoPost == [pool |-> "none", outcome |-> "none"]

RFresh ==
    /\ rIdx = [k \in PoolKinds |-> 0]
    /\ rClass = "main"
    /\ rSel = [node |-> 0, idx |-> 0]
    /\ rTried = <<>>
    /\ rIter = 0
    /\ rAttempt = 0
    /\ rLast = NoPost
    /\ rPoolPosts = 0
    /\ rMainPosts = 0
    /\ rPoolFails = {}
    /\ rWait = 0
    /\ rResult = "none"
    /\ rErr = "none"
    /\ rCalls = 0

\* A client as LLMClient.__init__ leaves it (llm.py:12-87), with 0..MaxNodes
\* nodes in each pool.
RInit ==
    /\ rSize \in [PoolKinds -> 0..MaxNodes]
    /\ rPc = "idle"
    /\ RFresh

\* A client whose pools have the same number of nodes, 0..PoolNodes.
RInitPools ==
    /\ rSize \in { [k \in PoolKinds |-> n] : n \in 0..PoolNodes }
    /\ rPc = "idle"
    /\ RFresh

\* The router is not in use.
RIdle ==
    /\ rSize = [k \in PoolKinds |-> 0]
    /\ rPc = "off"
    /\ RFresh

\* llm.py:148-157, 193-197, 231-235: entry of chat_completion.
RStart(cls, hint) ==
    /\ rPc = "idle"
    /\ rCalls < MaxRouterCalls
    /\ rCalls' = rCalls + 1
    /\ rClass' = cls
    /\ rTried' = <<>>
    /\ rIter' = 0
    /\ rAttempt' = 0
    /\ rLast' = NoPost
    /\ rPoolPosts' = 0
    /\ rMainPosts' = 0
    /\ rPoolFails' = {}
    /\ rWait' = 0
    /\ UNCHANGED rSize
    /\ UNCHANGED RRest
    /\ IF cls \in PoolKinds /\ rSize[cls] > 0
       THEN LET sel == GetNode(rSize[cls], rIdx[cls], hint)
            IN  /\ rSel' = sel
                /\ rIdx' = [rIdx EXCEPT ![cls] = sel.idx]
                /\ rPc' = "pool"
                /\ rResult' = "none"
                /\ rErr' = "none"
       ELSE /\ rSel' = [node |-> 0, idx |-> 0]
            /\ rIdx' = rIdx
            /\ IF cls = "vision"
               THEN rPc' = "done" /\ rResult' = "raise" /\ rErr' = "VisionFailed"
               ELSE rPc' = "main" /\ rResult' = "none" /\ rErr' = "none"

\* llm.py:130-146: the round-robin index after d more get_*_node(None)
\* calls, each of which advances it by one.
AdvancedBy(n, idx, d) == (idx + d) % n

\* llm.py:160-187, 200-227, 238-265: one iteration of the pool loop. The
\* node is chosen without suspending; the POST is awaited, and while it is
\* other calls on the same client make d round-robin picks from the same
\* pool; the except branch then picks the next node from the index they left.
RPoolAttemptDuring(o, d) ==
    /\ rPc = "pool"
    /\ LET n    == rSize[rClass]
           pick == PickForAttempt(n, [node |-> rSel.node, idx |-> rIdx[rClass]], rTried)
       IN  /\ rTried' = Append(rTried, pick.node)
           /\ rLast' = [pool |-> rClass, outcome |-> o]
           /\ rPoolPosts' = rPoolPosts + 1
           /\ IF o = "ok"
              THEN /\ rPc' = "done"
                   /\ rResult' = "ok"
                   /\ rErr' = "none"
                   /\ rSel' = pick
                   /\ rIdx' = [rIdx EXCEPT ![rClass] = AdvancedBy(n, pick.idx, d)]
                   /\ UNCHANGED <<rIter, rPoolFails>>
              ELSE LET nxt == GetNode(n, AdvancedBy(n, pick.idx, d), <<>>)
                   IN  /\ rSel' = nxt
                       /\ rIdx' = [rIdx EXCEPT ![rClass] = nxt.idx]
                       /\ rIter' = rIter + 1
                       /\ rPoolFails' = rPoolFails \cup {FailureKind(o)}
                       /\ IF rIter + 1 < n
                          THEN rPc' = "pool" /\ rResult' = "none" /\ rErr' = "none"
                          ELSE IF FallsBackToMain(rClass)
                          THEN rPc' = "main" /\ rResult' = "none" /\ rErr' = "none"
                          ELSE rPc' = "done" /\ rResult' = "raise" /\ rErr' = "VisionFailed"
    /\ UNCHANGED <<rSize, rClass, rAttempt, rMainPosts, rWait, rCalls>>
    /\ UNCHANGED RRest

\* One iteration of the pool loop with no other call in flight.
RPoolAttempt(o) == RPoolAttemptDuring(o, 0)

\* llm.py:269-288: one attempt of the main loop.
RMainAttempt(o) ==
    /\ rPc = "main"
    /\ rAttempt < MainAttempts
    /\ rLast' = [pool |-> "main", outcome |-> o]
    /\ rMainPosts' = rMainPosts + 1
    /\ IF o = "ok"
       THEN rPc' = "done" /\ rResult' = "ok" /\ rErr' = "none"
            /\ UNCHANGED <<rAttempt, rWait>>
       ELSE IF RetriedOnMain(o) /\ rAttempt < MainAttempts - 1
       THEN rPc' = "main" /\ rResult' = "none" /\ rErr' = "none"
            /\ rWait' = WaitTime(rAttempt)
            /\ rAttempt' = rAttempt + 1
       ELSE rPc' = "done" /\ rResult' = "raise" /\ rErr' = o
            /\ UNCHANGED <<rAttempt, rWait>>
    /\ UNCHANGED <<rSize, rIdx, rClass, rSel, rTried, rIter, rPoolPosts,
                   rPoolFails, rCalls>>
    /\ UNCHANGED RRest

\* The call has returned or raised: its locals are gone, the client keeps
\* its pools and their round-robin indexes and is ready for the next call.
RReturn ==
    /\ rPc = "done"
    /\ rPc' = "idle"
    /\ rClass' = "main"
    /\ rSel' = [node |-> 0, idx |-> 0]
    /\ rTried' = <<>>
    /\ rIter' = 0
    /\ rAttempt' = 0
    /\ rLast' = NoPost
    /\ rPoolPosts' = 0
    /\ rMainPosts' = 0
    /\ rPoolFails' = {}
    /\ rWait' = 0
    /\ rResult' = "none"
    /\ rErr' = "none"
    /\ UNCHANGED <<rSize, rIdx, rCalls>>
    /\ UNCHANGED RRest

RNext ==
    \/ \E cls \in CallClasses, hint \in Hints : RStart(cls, hint)
    \/ \E o \in Outcomes : RPoolAttempt(o)
    \/ \E o \in Outcomes : RMainAttempt(o)
    \/ RReturn

\* Calls on a client whose other calls are in flight at the same time.
RNextConcurrent ==
    \/ \E cls \in CallClasses, hint \in Hints : RStart(cls, hint)
    \/ \E o \in Outcomes, d \in 0..MaxOtherGets : RPoolAttemptDuring(o, d)
    \/ \E o \in Outcomes : RMainAttempt(o)
    \/ RReturn

\* The call was made to a class with configured nodes and every one of them
\* has failed.
AllNodesFailed == rClass \in PoolKinds /\ rSize[rClass] > 0 /\ rIter = rSize[rClass]

C7_HttpErrorSurfacesAtOnce ==
    rLast.outcome \in HttpKinds =>
        (rPc = "done" /\ rResult = "raise" /\ rErr = rLast.outcome)

\* C7: an HTTP non-2xx response from the main pool is raised to the caller
\* at once and not retried; from a swarm, worker or vision node it is a node
\* failure like any other: the next node or the fallback is tried and the
\* status is not what the caller sees.
C7_HttpErrorFromMainSurfaces ==
    rLast.outcome \in HttpKinds =>
        IF rLast.pool = "main"
        THEN /\ rPc = "done" /\ rResult = "raise" /\ rErr = rLast.outcome
             /\ rMainPosts = rAttempt + 1
        ELSE /\ rIter >= 1
             /\ rErr # rLast.outcome
             /\ rPc \in {"pool", "main", "done"}
             /\ rPc = "done" => (rClass = "vision" /\ rErr = "VisionFailed")

C7_Witness ==
    /\ rLast = [pool |-> "main", outcome |-> "Http400Context"]
    /\ rPc = "done" /\ rResult = "raise" /\ rErr = "Http400Context"

(***************************************************************************)
(* Part 3.  Reasoning loop: src/src/ghost_agent/core/agent.py 257-954      *)
(***************************************************************************)

\* Bound: tool calls in one responder message.
MaxCallsPerTurn == 2
\* Bound: distinct tool calls the model uses within one request.
MaxDistinctCalls == 2
\* Bound: responder messages with tool calls within one short request.
MaxToolTurns == 2
\* Bound: tool calls in one responder message of a long request.
LongWidth == 2

\* agent.py:370  for turn in range(20)
MaxTurns == 20
\* agent.py:726  max_uses
CapSearch == 10
CapExecute == 20
CapOther == 10
\* agent.py:769  if redundancy_strikes >= 3
StrikeLimit == 3
\* agent.py:858, 877  if execution_failure_count >= 3
FailLimit == 3
\* agent.py:692  turn < 4
NudgeTurns == 4

ToolNames == {"web_search", "deep_research", "system_utility", "file_system", "execute"}

\* registry.py:176-199  get_available_tools
AvailableTools == ToolNames

\* The argument string of a tool call: a JSON object written as a list of
\* key/value pairs in the order the model wrote them, or a text that is not
\* JSON (ok = FALSE).
Arg(pairs) == [ok |-> TRUE, pairs |-> pairs]
BadArg == [ok |-> FALSE, pairs |-> <<>>]

CallChoices ==
    { [name |-> "web_search",     args |-> Arg(<< <<"query", "a">>, <<"n", "1">> >>)],
      [name |-> "web_search",     args |-> Arg(<< <<"n", "1">>, <<"query", "a">> >>)],
      [name |-> "web_search",     args |-> BadArg],
      [name |-> "system_utility", args |-> Arg(<< <<"action", "check_time">> >>)],
      [name |-> "file_system",    args |-> Arg(<< <<"operation", "write">>, <<"path", "p">> >>)],
      [name |-> "execute",        args |-> Arg(<< <<"filename", "f">>, <<"content", "c">> >>)] }

\* The calls of a model that keeps to one call for a whole request.
LongCallChoices ==
    CallChoices \cup { [name |-> "deep_research", args |-> Arg(<< <<"query", "a">> >>)] }

\* The calls of one turn: those, a call of a tool that is not registered,
\* a web_search call without the query, and an execute call whose code has
\* more than 10 lines.
TurnCallChoices ==
    LongCallChoices \cup { [name |-> "unknown_tool", args |-> Arg(<< <<"query", "a">> >>)],
                           [name |-> "web_search",   args |-> Arg(<< <<"n", "1">> >>)],
                           [name |-> "execute",
                            args |-> Arg(<< <<"filename", "f">>, <<"content", "long">> >>)] }

\* The calls of a turn that reads a file, changes it and reads it again.
MutationCallChoices ==
    { [name |-> "file_system", args |-> Arg(<< <<"operation", "read">>, <<"path", "p">> >>)],
      [name |-> "file_system", args |-> Arg(<< <<"operation", "replace">>, <<"path", "p">>,
                                               <<"content", "c">> >>)],
      [name |-> "file_system", args |-> Arg(<< <<"operation", "write">>, <<"path", "p">>,
                                               <<"content", "c">> >>)],
      [name |-> "execute",     args |-> Arg(<< <<"filename", "f">>, <<"content", "c">> >>)] }

\* json.loads of an object: a map from its keys, the last value of a
\* repeated key winning.
JsonLoads(pairs) ==
    [k \in { pairs[i][1] : i \in 1..Len(pairs) } |->
        pairs[CHOOSE i \in 1..Len(pairs) :
                 /\ pairs[i][1] = k
                 /\ \A j \in 1..Len(pairs) : pairs[j][1] = k => j <= i][2]]

\* Keys in the order json.dumps(sort_keys=True) writes them.
KeyOrder == <<"action", "content", "filename", "n", "operation", "path", "query">>

\* json.dumps(t_args, sort_keys=True): the pairs of the map in key order.
DumpSorted(d) ==
    LET has(k) == k \in DOMAIN d
        ks == SelectSeq(KeyOrder, has)
    IN  [i \in 1..Len(ks) |-> <<ks[i], d[ks[i]]>>]

\* A hash of the argument text as the model wrote it.
AHashRaw(fname, pairs) == <<fname, pairs>>

\* agent.py:736, 741  t_args = json.loads(...);
\* a_hash = f"{fname}:{json.dumps(t_args, sort_keys=True)}"
AHash(fname, pairs) == <<fname, DumpSorted(JsonLoads(pairs))>>

\* What a call is, whatever order its keys were written in: the tool name
\* and the arguments as a map.
CallId(c) == <<c.name, JsonLoads(c.args.pairs)>>


Get(d, k) == IF k \in DOMAIN d THEN d[k] ELSE "none"

\* agent.py:749-751  is_mutating
IsMutating(fname, d) ==
    \/ fname \in {"execute", "manage_tasks", "update_profile", "learn_skill"}
    \/ (fname = "file_system"
        /\ Get(d, "operation") \in {"write", "download", "delete", "move", "rename"})
    \/ (fname = "knowledge_base"
        /\ Get(d, "action") \in {"ingest_document", "forget", "reset_all", "insert_fact"})

\* agent.py:777  len(code_content.splitlines()) > 10
CriticLines == 10

\* len(code_content.splitlines()) of the code texts of the model.
CodeLines(content) == IF content = "long" THEN CriticLines + 1 ELSE 1

\* What the critic's upstream call may come back with: it raises; its answer
\* has status APPROVED; another status with revised_code; another status
\* without; a content that is no JSON.
CriticReplies == {"raise", "approved", "revised", "blocked", "not_json"}

\* A critic check that takes a failed call for a rejection.
CriticFailClosed(reply) ==
    IF reply = "approved"
    THEN [approved |-> TRUE, revised |-> FALSE]
    ELSE [approved |-> FALSE, revised |-> reply = "revised"]

\* agent.py:965-1002  _run_critic_check: is_approved, and whether
\* revised_code is given.  A call that raises is caught (agent.py:1000-1002)
\* and approves; a content that is no JSON is {} after extract_json_from_text,
\* which has neither status APPROVED nor revised_code.
RunCriticCheck(reply) ==
    IF reply \in {"raise", "approved"}
    THEN [approved |-> TRUE, revised |-> FALSE]
    ELSE [approved |-> FALSE, revised |-> reply = "revised"]

\* The parameters without a default of the function behind each tool
\* (execute.py:16, file_system.py:398, search.py:53, 57, system.py:364).
Required(fname) ==
    IF fname = "execute" THEN {"filename", "content"}
    ELSE IF fname = "file_system" THEN {"operation"}
    ELSE IF fname = "system_utility" THEN {"action"}
    ELSE {"query"}

\* registry.py:178-186, agent.py:796  self.available_tools[fname](**t_args):
\* the call of the tool's function binds the arguments; it raises TypeError
\* when a parameter without a default is missing.  Every tool takes
\* **kwargs, so unknown keys are accepted.
ArgsBind(fname, d) == Required(fname) \subseteq DOMAIN d

\* agent.py:756  if a_hash in seen_tools and not is_mutating and fname != "system_utility"
RedundancyBlocks(h, seen, mut, fname) ==
    h \in seen /\ ~mut /\ fname # "system_utility"

\* A cap that lets one more invocation through.
MaxUsesPlusOne(fname) ==
    (IF fname \in {"deep_research", "web_search"} THEN CapSearch
     ELSE IF fname = "execute" THEN CapExecute ELSE CapOther) + 1

\* agent.py:726  max_uses
MaxUses(fname) ==
    IF fname \in {"deep_research", "web_search"} THEN CapSearch
    ELSE IF fname = "execute" THEN CapExecute ELSE CapOther

NoThird == [seen |-> FALSE, ran |-> FALSE, alert |-> FALSE]

\* Every well-formed call a model may emit.
AllCallIds ==
    { CallId(c) : c \in { x \in TurnCallChoices \cup MutationCallChoices : x.args.ok } }

Sat(n, cap) == IF n < cap THEN n ELSE cap

\* History bookkeeping of one processed call c, h being CallId(c): mut is
\* is_mutating, ran whether it was scheduled, alert whether the redundancy
\* error was appended for it.
Track(st, c, h, mut, ran, alert) ==
    LET issued0 == IF mut THEN [x \in AllCallIds |-> 0] ELSE st.issued
        now0    == IF mut THEN {} ELSE st.now
        count   == h \notin now0 /\ ~mut
        issued1 == IF count THEN [issued0 EXCEPT ![h] = Sat(@ + 1, 3)] ELSE issued0
        once0   == IF mut THEN {} ELSE st.once
        twice0  == IF mut THEN {} ELSE st.twice
    IN  [st EXCEPT
           !.issued = issued1,
           !.now    = now0 \cup (IF mut THEN {} ELSE {h}),
           !.third  = IF ~st.third.seen /\ count /\ issued1[h] = 3
                      THEN [seen |-> TRUE, ran |-> ran, alert |-> alert]
                      ELSE @,
           !.once   = IF ran /\ ~mut THEN once0 \cup {h} ELSE once0,
           !.twice  = IF ran /\ ~mut /\ h \in once0 THEN twice0 \cup {h} ELSE twice0,
           !.ran    = IF ran THEN [@ EXCEPT ![c.name] = @ + 1] ELSE @,
           !.after  = IF ran /\ st.fail3 THEN [@ EXCEPT !.tools = TRUE] ELSE @]

\* agent.py:710-801: the body of `for tool in tool_calls` for one call.  The
\* call's tool["id"] is its position in the message; msgs are the tool-role
\* messages appended so far in this turn; reply is what the critic's call
\* comes back with if the critic is asked about this call.
DispatchOne(st0, c, reply) ==
    LET st     == [st0 EXCEPT !.pos = @ + 1]
        id     == st.pos
        fname  == c.name
        usage1 == [st.usage EXCEPT ![fname] = @ + 1]
    IN  IF usage1[fname] > MaxUses(fname)
        THEN [st EXCEPT !.usage = usage1, !.fs = TRUE, !.broke = TRUE]
        ELSE IF ~c.args.ok
        THEN [st EXCEPT !.usage = usage1, !.lwf = TRUE, !.toolsRun = TRUE,
                        !.msgs = Append(@, [id |-> id, content |-> "invalid_json"])]
        ELSE
        LET d     == JsonLoads(c.args.pairs)
            h     == AHash(fname, c.args.pairs)
            mut   == IsMutating(fname, d)
            seen1 == IF mut THEN {} ELSE st.seen
            ask   == /\ fname = "execute"
                     /\ CodeLines(Get(d, "content")) > CriticLines
                     /\ st.efc = 0
            crit  == IF ask THEN RunCriticCheck(reply)
                     ELSE [approved |-> TRUE, revised |-> FALSE]
            code  == IF ~crit.approved /\ crit.revised THEN "revised" ELSE "original"
            st1   == IF ask THEN [st EXCEPT !.asked = @ \cup {id}] ELSE st
        IN  IF RedundancyBlocks(h, seen1, mut, fname)
            THEN LET fs1 == st.fs \/ (st.strikes + 1 >= StrikeLimit)
                 IN  Track([st EXCEPT !.usage = usage1, !.seen = seen1,
                                      !.strikes = @ + 1,
                                      !.toolsRun = TRUE,
                                      !.msgs = Append(@, [id |-> id, content |-> "redundant"]),
                                      !.fs = fs1],
                           c, CallId(c), mut, FALSE, TRUE)
            ELSE IF ~crit.approved /\ ~crit.revised
            THEN Track([st1 EXCEPT !.usage = usage1, !.seen = seen1 \cup {h},
                                   !.lwf = TRUE, !.toolsRun = TRUE,
                                   !.msgs = Append(@, [id |-> id, content |-> "red_team_block"])],
                       c, CallId(c), mut, FALSE, FALSE)
            ELSE IF fname \in AvailableTools /\ ~ArgsBind(fname, d)
            THEN [st1 EXCEPT !.usage = usage1, !.seen = seen1 \cup {h},
                             !.raised = TRUE, !.broke = TRUE]
            ELSE IF fname \in AvailableTools
            THEN Track([st1 EXCEPT !.usage = usage1, !.seen = seen1 \cup {h},
                                   !.tasks = Append(@, [name |-> fname, id |-> id,
                                                        code |-> code])],
                       c, CallId(c), mut, TRUE, FALSE)
            ELSE Track([st1 EXCEPT !.usage = usage1, !.seen = seen1 \cup {h},
                                   !.toolsRun = TRUE,
                                   !.msgs = Append(@, [id |-> id, content |-> "unknown_tool"])],
                       c, CallId(c), mut, FALSE, FALSE)

\* agent.py:710  for tool in tool_calls (left by the break of line 730, or
\* by the exception of line 796, which nothing in handle_chat catches)
RECURSIVE Dispatch(_, _, _, _)
\* A loop that an unparsable argument string ends.
DispatchUntilError(st, calls, crit, i) ==
    IF i > Len(calls) \/ st.broke \/ st.lwf THEN st
    ELSE Dispatch(DispatchOne(st, calls[i], crit[i]), calls, crit, i + 1)

Dispatch(st, calls, crit, i) ==
    IF i > Len(calls) \/ st.broke THEN st
    ELSE Dispatch(DispatchOne(st, calls[i], crit[i]), calls, crit, i + 1)

\* agent.py:830-887: the bookkeeping of one gathered result.  r is "ok" or
\* "fail" (execute: exit code 0 or not; other tools: a result that does not
\* or does start with "Error:").
GatherOne(st, task, r, meta) ==
    IF task.name = "execute"
    THEN IF r = "fail"
         THEN LET efc    == st.efc + 1
                  streak == Sat(st.streak + 1, 3)
                  third  == streak = 3 /\ ~st.fail3
              IN  [st EXCEPT !.efc = efc, !.lwf = TRUE, !.streak = streak,
                             !.ffr = @ \/ efc >= FailLimit,
                             !.fail3 = @ \/ third,
                             !.fail3Alert = IF third THEN efc >= FailLimit ELSE @]
         ELSE [st EXCEPT !.efc = 0, !.streak = 0, !.fs = @ \/ ~meta]
    ELSE IF r = "fail"
    THEN LET efc == st.efc + 1
         IN  [st EXCEPT !.efc = efc, !.lwf = TRUE,
                        !.fs = @ \/ efc >= FailLimit]
    ELSE [st EXCEPT !.efc = 0]

\* agent.py:805  for i, result in enumerate(results)
RECURSIVE Gather(_, _, _, _, _)
Gather(st, tasks, res, meta, i) ==
    IF i > Len(tasks) THEN st
    ELSE Gather(GatherOne(st, tasks[i], res[i], meta), tasks, res, meta, i + 1)

\* The request flags: use_plan and not is_conversational (agent.py:392), a
\* meta keyword in the user's request (agent.py:689), body["stream"].
Configs == [usePlan : BOOLEAN, meta : BOOLEAN, stream : BOOLEAN]

\* What the planner's JSON leaves behind (agent.py:452-455, 470).
PlanChoices ==
    { [required |-> "all",        nextNone |-> FALSE, rootDone |-> FALSE, meta |-> FALSE],
      [required |-> "all",        nextNone |-> FALSE, rootDone |-> TRUE,  meta |-> FALSE],
      [required |-> "none",       nextNone |-> TRUE,  rootDone |-> FALSE, meta |-> FALSE],
      [required |-> "web_search", nextNone |-> FALSE, rootDone |-> FALSE, meta |-> TRUE] }

NoPlan == [required |-> "all", nextNone |-> FALSE, thought |-> FALSE, meta |-> FALSE]

\* Results of the responder call as agent.py:578-625 tells them apart.
RespOutcomes == {"ok", "Unreachable", "Http400Context", "HttpOther", "Other"}

\* agent.py:513-515, 536
FinalNow == force_final_response \/ (lCfg.usePlan /\ plan.thought /\ plan.nextNone)
IsFinalGeneration == FinalNow \/ plan.required = "none"

\* agent.py:867  has_meta_intent over last_user_content + thought_content
HasMetaIntent == lCfg.meta \/ plan.meta

LFresh ==
    /\ lTurn = 0
    /\ force_stop = FALSE
    /\ force_final_response = FALSE
    /\ last_was_failure = FALSE
    /\ execution_failure_count = 0
    /\ redundancy_strikes = 0
    /\ seen_tools = {}
    /\ tool_usage = [t \in ToolNames |-> 0]
    /\ plan = NoPlan
    /\ tool_tasks = <<>>
    /\ tools_run = FALSE
    /\ final_ai = "empty"
    /\ hRan = [t \in ToolNames |-> 0]
    /\ hOnce = {}
    /\ hTwice = {}
    /\ hIssued = [x \in AllCallIds |-> 0]
    /\ hThird = NoThird
    /\ hFail3 = [seen |-> FALSE, alert |-> FALSE, streak |-> 0]
    /\ hAfterFail3 = [tools |-> FALSE, llm |-> 0, other |-> FALSE]
    /\ hOverflow = [failed |-> FALSE, late |-> FALSE]
    /\ hFsTurn = -1
    /\ hActTurn = -1

\* The sets of calls a model may keep to within one request.
Alphabets == { x \in SUBSET CallChoices : Cardinality(x) \in 1..MaxDistinctCalls }

\* agent.py:356-368: the state of a request before its first turn.  The
\* calls the model may emit in this request are drawn from lCfg.calls.
LInit ==
    /\ lCfg \in { [usePlan |-> c.usePlan, meta |-> c.meta, stream |-> c.stream,
                    width |-> MaxCallsPerTurn, calls |-> a] :
                    c \in Configs, a \in Alphabets }
    /\ mLeft = MaxToolTurns
    /\ lPc = "top"
    /\ LFresh

\* The same for a request without planning or streaming in which the model
\* keeps to one call and emits it for as many turns as the loop lets it.
LInitLong ==
    /\ lCfg \in { [usePlan |-> FALSE, meta |-> m, stream |-> FALSE,
                    width |-> LongWidth, calls |-> {c}] :
                    m \in BOOLEAN, c \in LongCallChoices }
    /\ mLeft = -1
    /\ lPc = "top"
    /\ LFresh

\* The reasoning loop is not in use.
LIdle ==
    /\ lCfg = [usePlan |-> FALSE, meta |-> FALSE, stream |-> FALSE, width |-> 0, calls |-> {}]
    /\ mLeft = 0
    /\ lPc = "off"
    /\ LFresh

\* A loop that only ends with range(20).
LeavesLoopAtLimit == lTurn = MaxTurns

\* A loop that only ends when force_stop is set.
LeavesLoopOnStop == force_stop

\* agent.py:370, 374  the end of range(20), and if force_stop: break
LeavesLoop == lTurn = MaxTurns \/ force_stop

\* The responder call is next: after the planner call, or at the top of a
\* turn without planning (agent.py:392).
AtResponder ==
    \/ lPc = "respond"
    \/ (lPc = "top" /\ ~lCfg.usePlan /\ ~LeavesLoop)

CountLlm(after, final) ==
    IF hFail3.seen
    THEN [after EXCEPT !.llm = Sat(@ + 1, 2), !.other = @ \/ ~final]
    ELSE after

\* agent.py:370-374: the loop is left.
LoopExit ==
    /\ lPc = "top"
    /\ LeavesLoop
    /\ lPc' = "post"
    /\ UNCHANGED <<lCfg, mLeft, lTurn, force_stop, force_final_response, last_was_failure,
                   execution_failure_count, redundancy_strikes, seen_tools, tool_usage,
                   plan, tool_tasks, tools_run, final_ai, hRan, hOnce, hTwice,
                   hIssued, hThird, hFail3, hAfterFail3, hOverflow, hFsTurn, hActTurn>>
    /\ UNCHANGED LRest

\* agent.py:392-476: the planner call of a turn.  raised: the call raised or
\* its answer was no JSON object; otherwise p is what the answer leaves.
PlannerCall(raised, p) ==
    /\ lPc = "top"
    /\ ~LeavesLoop
    /\ lCfg.usePlan
    /\ lPc' = "respond"
    /\ IF raised
       THEN UNCHANGED <<plan, force_stop, hFsTurn>>
       ELSE /\ plan' = [required |-> p.required, nextNone |-> p.nextNone,
                        thought |-> TRUE, meta |-> p.meta]
            /\ force_stop' = (force_stop \/ (p.rootDone /\ lTurn > 0))
            /\ hFsTurn' = IF ~force_stop /\ p.rootDone /\ lTurn > 0 THEN lTurn ELSE hFsTurn
    /\ hActTurn' = lTurn
    /\ hAfterFail3' = CountLlm(hAfterFail3, FALSE)
    /\ hOverflow' = IF hOverflow.failed THEN [hOverflow EXCEPT !.late = TRUE] ELSE hOverflow
    /\ UNCHANGED <<lCfg, mLeft, lTurn, force_final_response, last_was_failure,
                   execution_failure_count, redundancy_strikes, seen_tools, tool_usage,
                   tool_tasks, tools_run, final_ai, hRan, hOnce, hTwice,
                   hIssued, hThird, hFail3>>
    /\ UNCHANGED LRest

\* agent.py:549-574: the final generation of a streaming request is handed
\* to the client as a stream and the loop is left.
StreamReturn ==
    /\ AtResponder
    /\ IsFinalGeneration /\ lCfg.stream
    /\ lPc' = "done"
    /\ final_ai' = "stream"
    /\ force_final_response' = FinalNow
    /\ hActTurn' = lTurn
    /\ hAfterFail3' = CountLlm(hAfterFail3, TRUE)
    /\ UNCHANGED <<lCfg, mLeft, lTurn, force_stop, last_was_failure,
                   execution_failure_count, redundancy_strikes, seen_tools, tool_usage,
                   plan, tool_tasks, tools_run, hRan, hOnce, hTwice,
                   hIssued, hThird, hFail3, hOverflow, hFsTurn>>
    /\ UNCHANGED LRest

\* agent.py:627-801: what the loop does with the responder's message.  The
\* code of the execute calls of these requests has one line, so the critic
\* is not asked.
ProcessMsg(msg) ==
    IF msg.calls = <<>>
    THEN /\ IF lCfg.meta /\ lTurn < NudgeTurns
            THEN /\ lTurn' = lTurn + 1
                 /\ lPc' = "top"
                 /\ final_ai' = final_ai
            ELSE /\ lTurn' = lTurn
                 /\ lPc' = "post"
                 /\ final_ai' = IF msg.content THEN "text" ELSE final_ai
         /\ UNCHANGED <<mLeft, force_stop, last_was_failure, redundancy_strikes,
                        seen_tools, tool_usage, tool_tasks, tools_run, hRan, hOnce, hTwice,
                        hIssued, hThird, hFsTurn>>
    ELSE LET st0 == [usage |-> tool_usage, seen |-> seen_tools, strikes |-> 0,
                     fs |-> force_stop, lwf |-> FALSE, tasks |-> <<>>,
                     efc |-> execution_failure_count,
                     pos |-> 0, msgs |-> <<>>, raised |-> FALSE, asked |-> {},
                     broke |-> FALSE, toolsRun |-> tools_run, issued |-> hIssued,
                     now |-> {}, third |-> hThird, once |-> hOnce, twice |-> hTwice,
                     ran |-> hRan, after |-> [tools |-> FALSE], fail3 |-> hFail3.seen]
         IN  \E st \in { Dispatch(st0, msg.calls, [i \in 1..Len(msg.calls) |-> "approved"], 1) } :
             /\ mLeft' = IF mLeft > 0 THEN mLeft - 1 ELSE mLeft
             /\ tool_usage' = st.usage
             /\ seen_tools' = st.seen
             /\ redundancy_strikes' = st.strikes
             /\ force_stop' = st.fs
             /\ last_was_failure' = st.lwf
             /\ tool_tasks' = [i \in DOMAIN st.tasks |-> [name |-> st.tasks[i].name]]
             /\ tools_run' = st.toolsRun
             /\ hIssued' = st.issued
             /\ hThird' = st.third
             /\ hOnce' = st.once
             /\ hTwice' = st.twice
             /\ hRan' = st.ran
             /\ hFsTurn' = IF ~force_stop /\ st.fs THEN lTurn ELSE hFsTurn
             /\ final_ai' = IF msg.content THEN "text" ELSE final_ai
             /\ IF st.raised
                THEN lTurn' = lTurn /\ lPc' = "raised"
                ELSE IF st.tasks = <<>>
                THEN lTurn' = lTurn + 1 /\ lPc' = "top"
                ELSE lTurn' = lTurn /\ lPc' = "gather"

\* agent.py:582-586, 616-625: the responder call failed for good.
GiveUp ==
    /\ final_ai' = "critical"
    /\ force_stop' = TRUE
    /\ hFsTurn' = IF ~force_stop THEN lTurn ELSE hFsTurn
    /\ lPc' = "post"
    /\ UNCHANGED <<mLeft, lTurn, last_was_failure, redundancy_strikes, seen_tools,
                   tool_usage, tool_tasks, tools_run, hRan, hOnce, hTwice, hIssued, hThird>>

\* A loop that goes on retrying.
RetryAgain == "retry"

\* Where a failed retry leaves the loop: agent.py:612-615 breaks.
AfterFailedRetry == "post"

\* agent.py:577-625: the responder call of a turn.
ResponderCall(o, msg) ==
    /\ AtResponder
    /\ ~(IsFinalGeneration /\ lCfg.stream)
    /\ force_final_response' = FinalNow
    /\ hActTurn' = lTurn
    /\ hAfterFail3' = CountLlm(hAfterFail3, IsFinalGeneration)
    /\ IF o = "ok"
       THEN ProcessMsg(msg)
       ELSE IF o = "Http400Context"
       THEN /\ lPc' = "retry"
            /\ UNCHANGED <<mLeft, lTurn, force_stop, last_was_failure, redundancy_strikes,
                           seen_tools, tool_usage, tool_tasks, tools_run, final_ai, hRan,
                           hOnce, hTwice, hIssued, hThird, hFsTurn>>
       ELSE GiveUp
    /\ hOverflow' = IF hOverflow.failed THEN [hOverflow EXCEPT !.late = TRUE] ELSE hOverflow
    /\ UNCHANGED <<lCfg, execution_failure_count, plan, hFail3>>
    /\ UNCHANGED LRest

\* agent.py:606-615: the one retry after the emergency prune.
RetryCall(o, msg) ==
    /\ lPc = "retry"
    /\ hActTurn' = lTurn
    /\ hAfterFail3' = hAfterFail3
    /\ IF o = "ok"
       THEN /\ ProcessMsg(msg)
            /\ hOverflow' = IF hOverflow.failed THEN [hOverflow EXCEPT !.late = TRUE]
                            ELSE hOverflow
       ELSE /\ final_ai' = "critical"
            /\ force_stop' = TRUE
            /\ hFsTurn' = IF ~force_stop THEN lTurn ELSE hFsTurn
            /\ lPc' = AfterFailedRetry
            /\ hOverflow' = [failed |-> TRUE, late |-> hOverflow.failed]
            /\ UNCHANGED <<mLeft, lTurn, last_was_failure, redundancy_strikes, seen_tools,
                           tool_usage, tool_tasks, tools_run, hRan, hOnce, hTwice,
                           hIssued, hThird>>
    /\ UNCHANGED <<lCfg, force_final_response, execution_failure_count, plan, hFail3>>
    /\ UNCHANGED LRest

\* agent.py:803-887: the scheduled invocations run and their results are
\* appended; res gives each result.
GatherResults(res) ==
    /\ lPc = "gather"
    /\ LET st0 == [efc |-> execution_failure_count, lwf |-> last_was_failure,
                   streak |-> hFail3.streak,
                   ffr |-> force_final_response, fail3 |-> hFail3.seen,
                   fail3Alert |-> hFail3.alert, fs |-> force_stop]
       IN  \E st \in { Gather(st0, tool_tasks, res, HasMetaIntent, 1) } :
           /\ execution_failure_count' = st.efc
           /\ last_was_failure' = st.lwf
           /\ force_final_response' = st.ffr
           /\ force_stop' = st.fs
           /\ hFail3' = [seen |-> st.fail3, alert |-> st.fail3Alert, streak |-> st.streak]
           /\ hFsTurn' = IF ~force_stop /\ st.fs THEN lTurn ELSE hFsTurn
    /\ tool_tasks' = <<>>
    /\ tools_run' = TRUE
    /\ lTurn' = lTurn + 1
    /\ lPc' = "top"
    /\ hActTurn' = lTurn
    /\ UNCHANGED <<lCfg, mLeft, redundancy_strikes, seen_tools, tool_usage, plan, final_ai,
                   hRan, hOnce, hTwice, hIssued, hThird, hAfterFail3, hOverflow>>
    /\ UNCHANGED LRest

\* agent.py:889-954: the final response is put together.
PostProcess ==
    /\ lPc = "post"
    /\ lPc' = "done"
    /\ final_ai' = IF final_ai # "empty" THEN final_ai
                   ELSE IF tools_run THEN "fallback" ELSE "default"
    /\ UNCHANGED <<lCfg, mLeft, lTurn, force_stop, force_final_response, last_was_failure,
                   execution_failure_count, redundancy_strikes, seen_tools, tool_usage,
                   plan, tool_tasks, tools_run, hRan, hOnce, hTwice,
                   hIssued, hThird, hFail3, hAfterFail3, hOverflow, hFsTurn, hActTurn>>
    /\ UNCHANGED LRest

\* The messages the model may answer with: whether it has content, and its
\* tool_calls after the syntax healer of agent.py:633-654 has added those
\* written as <tool_call> tags (which a model can write whether or not the
\* payload carried a tools array).
ModelMsgs ==
    [content : BOOLEAN,
     calls : IF mLeft = 0 THEN { <<>> } ELSE SeqsUpTo(lCfg.calls, lCfg.width)]

NoMsg == [content |-> FALSE, calls |-> <<>>]
RespErrors == RespOutcomes \ {"ok"}

LNext ==
    \/ LoopExit
    \/ \E p \in PlanChoices : PlannerCall(FALSE, p)
    \/ PlannerCall(TRUE, CHOOSE p \in PlanChoices : TRUE)
    \/ StreamReturn
    \/ \E msg \in ModelMsgs : ResponderCall("ok", msg)
    \/ \E o \in RespErrors : ResponderCall(o, NoMsg)
    \/ \E msg \in ModelMsgs : RetryCall("ok", msg)
    \/ \E o \in RespErrors : RetryCall(o, NoMsg)
    \/ \E res \in [1..Len(tool_tasks) -> {"ok", "fail"}] : GatherResults(res)
    \/ PostProcess

\* The steps of a request without planning or streaming.
LNextLong ==
    \/ LoopExit
    \/ \E msg \in ModelMsgs : ResponderCall("ok", msg)
    \/ \E o \in RespErrors : ResponderCall(o, NoMsg)
    \/ \E msg \in ModelMsgs : RetryCall("ok", msg)
    \/ \E o \in RespErrors : RetryCall(o, NoMsg)
    \/ \E res \in [1..Len(tool_tasks) -> {"ok", "fail"}] : GatherResults(res)
    \/ PostProcess

(***************************************************************************)
(* Part 4.  The tool messages of one turn: agent.py 705-828                *)
(***************************************************************************)

\* Bound: tool calls in the assistant message of the turn.
MaxTurnCalls == 3

CallNames == ToolNames \cup {"unknown_tool"}

\* agent.py:356  tool_usage = {}
NoUsage == [t \in CallNames |-> 0]

\* agent.py:356-368, 705-709: the dispatch state at the start of a turn of a
\* request in which tools are called and run.
TFresh ==
    [usage |-> tUsage, seen |-> {}, strikes |-> 0,
     fs |-> FALSE, lwf |-> FALSE, tasks |-> <<>>, efc |-> tEfc, pos |-> 0,
     msgs |-> <<>>, raised |-> FALSE, asked |-> {},
     broke |-> FALSE, toolsRun |-> FALSE, issued |-> [x \in AllCallIds |-> 0],
     now |-> {}, third |-> NoThird, once |-> {}, twice |-> {},
     ran |-> [t \in ToolNames |-> 0], after |-> [tools |-> FALSE], fail3 |-> FALSE]

\* agent.py:627-631: the responder's message carries tool calls.
TInit ==
    /\ tPc = "emit"
    /\ tCalls \in SeqsUpTo(TurnCallChoices, MaxTurnCalls) \ { <<>> }
    /\ tMeta = <<>>
    /\ tFinished = <<>>
    /\ tMsgs = <<>>
    /\ tEfc \in {0, 1}
    /\ tUsage = NoUsage
    /\ tCrit = <<>>

\* agent.py:712, 726: tool_usage in a later turn of a request whose earlier
\* turns have issued calls of the tool t up to one below its cap, or up to it.
UsedUp(t, left) == [n \in CallNames |-> IF n = t THEN MaxUses(n) - left ELSE 0]

\* agent.py:627-631: the responder's message carries tool calls in a turn
\* of a request that has used web_search or execute that much.
TInitUsed ==
    /\ tPc = "emit"
    /\ tCalls \in SeqsUpTo(CallChoices, MaxTurnCalls) \ { <<>> }
    /\ tMeta = <<>>
    /\ tFinished = <<>>
    /\ tMsgs = <<>>
    /\ tEfc = 0
    /\ tUsage \in { UsedUp(t, left) : t \in {"web_search", "execute"}, left \in {0, 1} }
    /\ tCrit = <<>>

\* agent.py:627-631: the responder's message carries calls that read and
\* change a file.
TInitMutation ==
    /\ tPc = "emit"
    /\ tCalls \in SeqsUpTo(MutationCallChoices, MaxTurnCalls) \ { <<>> }
    /\ tMeta = <<>>
    /\ tFinished = <<>>
    /\ tMsgs = <<>>
    /\ tEfc = 0
    /\ tUsage = NoUsage
    /\ tCrit = <<>>

\* No turn is being looked at.
TIdle ==
    /\ tPc = "off"
    /\ tCalls = <<>>
    /\ tMeta = <<>>
    /\ tFinished = <<>>
    /\ tMsgs = <<>>
    /\ tEfc = 0
    /\ tUsage = NoUsage
    /\ tCrit = <<>>

\* agent.py:709-801: the for loop over tool_calls; the error messages of the
\* calls that are not scheduled are appended as the loop meets them.  crit
\* is what the critic's call comes back with for each call it is asked about.
TDispatch(crit) ==
    /\ tPc = "emit"
    /\ \E st \in { Dispatch(TFresh, tCalls, crit, 1) } :
        /\ tMeta' = st.tasks
        /\ tMsgs' = st.msgs
        /\ tCrit' = [i \in 1..Len(tCalls) |-> IF i \in st.asked THEN crit[i] ELSE "not_asked"]
        /\ tPc' = IF st.raised THEN "raised"
                  ELSE IF st.tasks = <<>> THEN "done" ELSE "run"
    /\ UNCHANGED <<tCalls, tFinished, tEfc, tUsage>>
    /\ UNCHANGED TRest

\* agent.py:804  asyncio.gather: the scheduled invocations run concurrently
\* and complete in any order, each returning its text (which a tool that
\* caught its own failure starts with "Error:") or raising.
TComplete(i, r) ==
    /\ tPc = "run"
    /\ \A k \in 1..Len(tFinished) : tFinished[k].task # i
    /\ tFinished' = Append(tFinished, [task |-> i, r |-> r])
    /\ UNCHANGED <<tPc, tCalls, tMeta, tMsgs, tEfc, tUsage, tCrit>>
    /\ UNCHANGED TRest

\* What the invocation tMeta[i] ended with.
ResultOf(i) == tFinished[CHOOSE k \in 1..Len(tFinished) : tFinished[k].task = i].r

\* agent.py:807  str_res: the text of a result, "Error: ..." for an exception
\* that gather returned (return_exceptions=True).
StrRes(r) == IF r = "raise" THEN "error_text" ELSE r

\* agent.py:804-828: gather returns the results in the order of tool_tasks
\* once all have completed; one tool message per result is appended with
\* the id of tool_call_metadata[i].
TGather ==
    /\ tPc = "run"
    /\ Len(tFinished) = Len(tMeta)
    /\ tMsgs' = tMsgs \o [i \in 1..Len(tMeta) |->
                            [id |-> tMeta[i].id, content |-> StrRes(ResultOf(i))]]
    /\ tPc' = "done"
    /\ UNCHANGED <<tCalls, tMeta, tFinished, tEfc, tUsage, tCrit>>
    /\ UNCHANGED TRest

TNext ==
    \/ \E crit \in [1..Len(tCalls) -> CriticReplies] : TDispatch(crit)
    \/ \E i \in 1..Len(tMeta), r \in {"text", "error_text", "raise"} : TComplete(i, r)
    \/ TGather

(***************************************************************************)
(* Part 5.  Admission: agent.py 61, 257-264, 549-574                       *)
(***************************************************************************)

\* Bound: requests that arrive.
MaxRequests == 12

\* agent.py:61  asyncio.Semaphore(10)
AgentSlots == 10

\* agent.py:61: the agent after construction; no request has arrived.
AInit ==
    /\ aSem = AgentSlots
    /\ aWaiting = 0
    /\ aLoop = 0
    /\ aCall = 0
    /\ aStream = 0
    /\ aDone = 0

\* Admission is not looked at.
AIdle ==
    /\ aSem = 0
    /\ aWaiting = 0
    /\ aLoop = 0
    /\ aCall = 0
    /\ aStream = 0
    /\ aDone = 0

\* agent.py:257-263: handle_chat is called and reaches the semaphore.
AArrive ==
    /\ aWaiting + aLoop + aCall + aStream + aDone < MaxRequests
    /\ aWaiting' = aWaiting + 1
    /\ UNCHANGED <<aSem, aLoop, aCall, aStream, aDone>>
    /\ UNCHANGED ARest

\* agent.py:263  async with self.agent_semaphore: acquire
AAcquire ==
    /\ aWaiting > 0
    /\ aSem > 0
    /\ aSem' = aSem - 1
    /\ aWaiting' = aWaiting - 1
    /\ aLoop' = aLoop + 1
    /\ UNCHANGED <<aCall, aStream, aDone>>
    /\ UNCHANGED ARest

\* agent.py:447, 578, 608: a planner or responder call is awaited.
AUpstreamCall ==
    /\ aLoop > 0
    /\ aLoop' = aLoop - 1
    /\ aCall' = aCall + 1
    /\ UNCHANGED <<aSem, aWaiting, aStream, aDone>>
    /\ UNCHANGED ARest

\* The awaited call returns or raises into the loop.
AUpstreamReturn ==
    /\ aCall > 0
    /\ aCall' = aCall - 1
    /\ aLoop' = aLoop + 1
    /\ UNCHANGED <<aSem, aWaiting, aStream, aDone>>
    /\ UNCHANGED ARest

\* A block that is left without giving the slot back.
AReturnLeaks ==
    /\ aLoop > 0
    /\ aLoop' = aLoop - 1
    /\ aDone' = aDone + 1
    /\ UNCHANGED <<aSem, aWaiting, aCall, aStream>>
    /\ UNCHANGED ARest

\* agent.py:954 (or an exception): the block is left with the final
\* response and the semaphore is released.
AReturn ==
    /\ aLoop > 0
    /\ aLoop' = aLoop - 1
    /\ aSem' = aSem + 1
    /\ aDone' = aDone + 1
    /\ UNCHANGED <<aWaiting, aCall, aStream>>
    /\ UNCHANGED ARest

\* agent.py:549-574: `return stream_wrapper(), ...` leaves the block and
\* releases the semaphore; the body of the generator, with its
\* stream_chat_completion call, runs when the caller iterates it.
AReturnStream ==
    /\ aLoop > 0
    /\ aLoop' = aLoop - 1
    /\ aSem' = aSem + 1
    /\ aStream' = aStream + 1
    /\ UNCHANGED <<aWaiting, aCall, aDone>>
    /\ UNCHANGED ARest

\* agent.py:551-572: the stream is exhausted.
AStreamEnd ==
    /\ aStream > 0
    /\ aStream' = aStream - 1
    /\ aDone' = aDone + 1
    /\ UNCHANGED <<aSem, aWaiting, aLoop, aCall>>
    /\ UNCHANGED ARest

ANext ==
    \/ AArrive
    \/ AAcquire
    \/ AUpstreamCall
    \/ AUpstreamReturn
    \/ AReturn
    \/ AReturnStream
    \/ AStreamEnd

(***************************************************************************)
(* Part 6.  The planner call and the responder request of one turn:        *)
(* agent.py 392-545, 576-625                                               *)
(***************************************************************************)

Msg(role, what) == [role |-> role, what |-> what]

\* agent.py:476  the "### ACTIVE STRATEGY: Proceed directly to using a tool" message
Hint == Msg("user", "proceed_to_tool_use")
\* agent.py:523  {"role": "system", "content": transient_injection}
Injection == Msg("system", "transient_injection")
\* agent.py:603  the "conversation history was truncated" message
TruncationAlert == Msg("user", "history_truncated")

HasHint(msgs) == \E i \in 1..Len(msgs) : msgs[i] = Hint

\* agent.py:600  content[:1000]
CutChars == 1000

\* The lengths of a tool result: below and above the cut.
ResultSizes == {300, 3000}

\* A tool-role message with a content of that many characters; own says
\* that this request appended it (it is in tools_run_this_turn) and marked
\* that its content ends with the emergency truncation marker.
ToolMsg(chars, own) ==
    [role |-> "tool", what |-> "result", chars |-> chars, own |-> own, marked |-> FALSE]

\* The working lists a turn may start with: the first turn of a request,
\* without and with a tool result in the history the client sent, and a
\* later turn after a tool ran, without and with the hint from an earlier
\* planner failure.
StartLists ==
    { << Msg("system", "base"), Msg("user", "request") >> }
    \cup { << Msg("system", "base"), Msg("user", "earlier"), Msg("assistant", "calls"),
             ToolMsg(n, FALSE), Msg("assistant", "answer"), Msg("user", "request") >> :
           n \in ResultSizes }
    \cup { << Msg("system", "base"), Msg("user", "request"), Msg("assistant", "calls"),
             ToolMsg(n, TRUE) >> : n \in ResultSizes }
    \cup { << Msg("system", "base"), Msg("user", "request"), Hint, Msg("assistant", "calls"),
             ToolMsg(n, TRUE) >> : n \in ResultSizes }

\* What the planner call may come back with: it raises; its content is no
\* JSON; its content is JSON but no object; its content is an object whose
\* keys may be absent, and whose required_tool may be null.
PlannerReplies ==
    { [kind |-> k, thought |-> "absent", next |-> "absent", required |-> "absent"] :
        k \in {"raise", "not_json", "json_array"} }
    \cup [kind : {"object"},
          thought : {"absent", "", "t"},
          next : {"absent", "none", "task_1"},
          required : {"absent", "all", "none", "web_search", "no_such_tool", "null"}]

NoReply == [kind |-> "none", thought |-> "absent", next |-> "absent", required |-> "absent"]

\* agent.py:361: thought_content = ""; next_action_id and required_tool are
\* not bound before the first planner call.
NoPlanYet == [thought |-> "", next |-> "unbound", required |-> "unbound"]

\* agent.py:28-39  extract_json_from_text: the object, {} for a text that
\* json.loads rejects, and whatever json.loads returns for other JSON.
ExtractJsonFromText(r) ==
    IF r.kind = "not_json"
    THEN [kind |-> "object", thought |-> "absent", next |-> "absent", required |-> "absent"]
    ELSE r

\* agent.py:452-455  plan_json.get(key, default)
PlanOf(j) ==
    [thought  |-> IF j.thought = "absent" THEN "No thought provided." ELSE j.thought,
     next     |-> IF j.next = "absent" THEN "" ELSE j.next,
     required |-> IF j.required = "absent" THEN "all" ELSE j.required]

\* registry.py:10-173  get_active_tool_definitions
ActiveTools == ToolNames

PInit ==
    /\ pCfg \in [usePlan : BOOLEAN, stream : BOOLEAN]
    /\ pPc = "plan"
    /\ pMsgs \in StartLists
    /\ pFfr \in BOOLEAN
    /\ pReply = NoReply
    /\ pPlan = NoPlanYet
    /\ pSent = <<>>

\* No turn is being looked at.
PIdle ==
    /\ pCfg = [usePlan |-> FALSE, stream |-> FALSE]
    /\ pPc = "off"
    /\ pMsgs = <<>>
    /\ pFfr = FALSE
    /\ pReply = NoReply
    /\ pPlan = NoPlanYet
    /\ pSent = <<>>

\* agent.py:392-476: the planner call.  The except clause is entered when
\* the call raises and when plan_json is no dict (plan_json.get raises).
PPlanner(r) ==
    /\ pPc = "plan"
    /\ pCfg.usePlan
    /\ pReply' = r
    /\ \E j \in { ExtractJsonFromText(r) } :
        IF j.kind = "object"
        THEN /\ pPlan' = PlanOf(j)
             /\ pMsgs' = pMsgs
        ELSE /\ pPlan' = pPlan
             /\ pMsgs' = IF HasHint(pMsgs) THEN pMsgs ELSE Append(pMsgs, Hint)
    /\ pPc' = "assemble"
    /\ UNCHANGED <<pCfg, pFfr, pSent>>
    /\ UNCHANGED PRest

\* agent.py:392: no planner call in this turn.
PNoPlanner ==
    /\ pPc = "plan"
    /\ ~pCfg.usePlan
    /\ pPc' = "assemble"
    /\ UNCHANGED <<pCfg, pMsgs, pFfr, pReply, pPlan, pSent>>
    /\ UNCHANGED PRest

\* agent.py:513-515
FinalByPlan == pCfg.usePlan /\ pPlan.thought # "" /\ pPlan.next = "none"

\* agent.py:533  locals().get("required_tool", "all")
TargetTool == IF pPlan.required = "unbound" THEN "all" ELSE pPlan.required

\* agent.py:536-545  the tools array of the payload
PayloadTools(final, target) ==
    IF final THEN [present |-> FALSE, names |-> {}]
    ELSE IF target # "all" /\ target \in ActiveTools
    THEN [present |-> TRUE, names |-> {target}]
    ELSE [present |-> TRUE, names |-> ActiveTools]

\* agent.py:500-578: the working list is pruned, the payload is built from a
\* copy of it with the injection appended, and it is posted (as a stream
\* when is_final_generation and stream_response).  target_tool.lower()
\* raises AttributeError for a required_tool that is no string.
PResponderRequest ==
    /\ pPc = "assemble"
    /\ \E ffr \in { pFfr \/ FinalByPlan } :
        /\ pFfr' = ffr
        /\ IF ~ffr /\ TargetTool = "null"
           THEN /\ pPc' = "raised"
                /\ pSent' = pSent
           ELSE \E final \in { ffr \/ TargetTool = "none" } :
                /\ pSent' = Append(pSent, [messages |-> Append(pMsgs, Injection),
                                           tools |-> PayloadTools(final, TargetTool),
                                           working |-> pMsgs])
                /\ pPc' = IF final /\ pCfg.stream THEN "done" ELSE "respond"
    /\ UNCHANGED <<pCfg, pMsgs, pReply, pPlan>>
    /\ UNCHANGED PRest

IsSystemMsg(m) == m.role = "system"

\* agent.py:600  last_tool["content"][:1000] + "\n... [EMERGENCY TRUNCATION] ..."
EmergencyTruncation(m) == [m EXCEPT !.chars = Min(@, CutChars), !.marked = TRUE]

\* The positions in msgs of the tool messages of tools_run_this_turn.
ToolsRunThisTurn(msgs) == { i \in 1..Len(msgs) : msgs[i].role = "tool" /\ msgs[i].own }

\* An emergency prune that keeps the last tool result as it is.
EmergencyPruneUncut(msgs) ==
    LET users == { i \in 1..Len(msgs) : msgs[i].role = "user" }
        tools == ToolsRunThisTurn(msgs)
        last(S) == CHOOSE i \in S : \A k \in S : k <= i
    IN  SelectSeq(msgs, IsSystemMsg)
        \o (IF users = {} THEN <<>> ELSE << msgs[last(users)] >>)
        \o (IF tools = {} THEN <<>> ELSE << msgs[last(tools)] >>)
        \o << TruncationAlert >>

\* agent.py:589-603  the emergency prune: the system messages, the last
\* user message, the last tool result of this request cut to 1000
\* characters and marked, the alert.
EmergencyPrune(msgs) ==
    LET users == { i \in 1..Len(msgs) : msgs[i].role = "user" }
        tools == ToolsRunThisTurn(msgs)
        last(S) == CHOOSE i \in S : \A k \in S : k <= i
    IN  SelectSeq(msgs, IsSystemMsg)
        \o (IF users = {} THEN <<>> ELSE << msgs[last(users)] >>)
        \o (IF tools = {} THEN <<>> ELSE << EmergencyTruncation(msgs[last(tools)]) >>)
        \o << TruncationAlert >>

\* agent.py:576-625: the responder call returns or raises.
PResponderReply(o) ==
    /\ pPc = "respond"
    /\ IF o = "Http400Context"
       THEN /\ pMsgs' = EmergencyPrune(pMsgs)
            /\ pPc' = "retry"
       ELSE /\ pMsgs' = pMsgs
            /\ pPc' = "done"
    /\ UNCHANGED <<pCfg, pFfr, pReply, pPlan, pSent>>
    /\ UNCHANGED PRest

\* agent.py:606-609  payload["messages"] = messages, and the payload is
\* posted again.
PRetry ==
    /\ pPc = "retry"
    /\ pSent' = Append(pSent, [messages |-> pMsgs,
                               tools |-> pSent[Len(pSent)].tools,
                               working |-> pMsgs])
    /\ pPc' = "done"
    /\ UNCHANGED <<pCfg, pMsgs, pFfr, pReply, pPlan>>
    /\ UNCHANGED PRest

PNext ==
    \/ \E r \in PlannerReplies : PPlanner(r)
    \/ PNoPlanner
    \/ PResponderRequest
    \/ \E o \in RespOutcomes : PResponderReply(o)
    \/ PRetry

(***************************************************************************)
(* Part 7.  File system tool: src/src/ghost_agent/tools/file_system.py     *)
(***************************************************************************)

\* Bound: components of a path argument.
MaxPathLen == 3

\* Absolute paths are sequences of names, << >> being "/".
Sandbox == <<"sb">>

\* The directories and regular files of the machine.
Dirs == { <<>>, <<"sb">>, <<"sb", "d">>, <<"out">> }
Files == { <<"sb", "a">>, <<"sb", "d", "b">>, <<"out", "passwd">> }

\* The symbolic links that code run in the sandbox may have made, and what
\* they point to.
Links == { <<"sb", "link">>, <<"sb", "dlink">>, <<"sb", "d", "in">> }
LinkTarget(l) ==
    IF l = <<"sb", "link">> THEN <<"out", "passwd">>
    ELSE IF l = <<"sb", "dlink">> THEN <<"out">>
    ELSE <<"sb", "a">>

\* The components a path argument is written with.
Names == {"..", "a", "d", "link", "dlink", "passwd"}

\* A filename: whether it starts with "/", and its components.
Filenames == [slash : BOOLEAN, comps : SeqsUpTo(Names, MaxPathLen)]
NoFilename == [slash |-> FALSE, comps |-> <<>>]

FsOps == {"read", "read_chunked", "inspect", "write", "replace", "search",
          "download", "rename", "delete"}

Parent(path) == IF path = <<>> THEN <<>> ELSE SubSeq(path, 1, Len(path) - 1)

\* Path.resolve(): "..", and the links met on the way, are resolved one
\* component after the other; names that do not exist are kept.
RECURSIVE Resolve(_, _, _, _)
Resolve(cur, comps, i, links) ==
    IF i > Len(comps) THEN cur
    ELSE LET step == IF comps[i] = ".." THEN Parent(cur) ELSE Append(cur, comps[i])
             real == IF step \in links THEN LinkTarget(step) ELSE step
         IN  Resolve(real, comps, i + 1, links)

\* Path.is_relative_to
IsRelativeTo(path, root) ==
    Len(path) >= Len(root) /\ SubSeq(path, 1, Len(root)) = root

\* file_system.py:16-35  _get_safe_path: lstrip("/") drops the leading
\* slash, the rest is resolved from the sandbox directory, and a target
\* outside it raises ValueError.
GetSafePath(filename, links) ==
    LET target == Resolve(Sandbox, filename.comps, 1, links)
    IN  [ok |-> IsRelativeTo(target, Sandbox), path |-> target]

Exists(path, links) == path \in Dirs \cup Files \cup links

\* What open() or is_file() reaches through an entry of a directory.
Follow(entry, links) == IF entry \in links THEN LinkTarget(entry) ELSE entry

\* file_system.py:255-263  search_root.rglob("*"): everything below the
\* directory (rglob does not descend into links to directories), of which
\* the entries that are files, links to files included, are opened.
SearchOpens(root, links) ==
    { Follow(e, links) :
        e \in { x \in Files \cup links :
                  /\ IsRelativeTo(x, root) /\ x # root
                  /\ Follow(x, links) \in Files } }

Outcome(result, accessed) == [result |-> result, accessed |-> accessed]

\* file_system.py:37-58, 60-97, 279-296, 311-323, 325-395: read, replace,
\* inspect, delete and read_chunked of an existing file.
OnExisting(filename, links) ==
    LET safe == GetSafePath(filename, links)
    IN  IF ~safe.ok THEN Outcome("security_error", {})
        ELSE IF ~Exists(safe.path, links) THEN Outcome("error", {})
        ELSE Outcome("done", {safe.path})

\* file_system.py:99-118, 166-237: write and download create the file.
OnNew(filename, links) ==
    LET safe == GetSafePath(filename, links)
    IN  IF ~safe.ok THEN Outcome("security_error", {})
        ELSE Outcome("done", {safe.path})

\* file_system.py:298-309  tool_rename_file
Rename(old, new, links) ==
    LET o == GetSafePath(old, links)
        n == GetSafePath(new, links)
    IN  IF ~o.ok \/ ~n.ok THEN Outcome("security_error", {})
        ELSE IF ~Exists(o.path, links) THEN Outcome("error", {})
        ELSE Outcome("done", {o.path, n.path})

\* file_system.py:239-277  tool_file_search
Search(filename, given, links) ==
    LET safe == IF given THEN GetSafePath(filename, links)
                ELSE [ok |-> TRUE, path |-> Sandbox]
    IN  IF ~safe.ok THEN Outcome("security_error", {})
        ELSE IF safe.path \in Files THEN Outcome("done", {safe.path})
        ELSE Outcome("done", SearchOpens(safe.path, links))

\* A filename that is the empty string after the healing of
\* file_system.py:400-416: `not target_path`.
Missing(filename) == ~filename.slash /\ filename.comps = <<>>

\* file_system.py:398-449  tool_file_system
ToolFileSystem(op, filename, second, links) ==
    IF op = "search" THEN Search(filename, ~Missing(filename), links)
    ELSE IF Missing(filename) THEN Outcome("error", {})
    ELSE IF op \in {"write", "download"} THEN OnNew(filename, links)
    ELSE IF op = "rename"
    THEN IF Missing(second) THEN Outcome("error", {}) ELSE Rename(filename, second, links)
    ELSE OnExisting(filename, links)

\* The new names of a rename.
SecondNames ==
    { NoFilename,
      [slash |-> FALSE, comps |-> <<"a">>],
      [slash |-> FALSE, comps |-> <<"..", "a">>],
      [slash |-> FALSE, comps |-> <<"dlink", "a">>] }

\* A file_system call on a sandbox with some of the links.
FInit ==
    /\ fLinks \in SUBSET Links
    /\ fOp \in FsOps
    /\ fPath \in Filenames
    /\ fSecond \in IF fOp = "rename" THEN SecondNames ELSE { NoFilename }
    /\ fPc = "call"
    /\ fResult = "none"
    /\ fAccessed = {}

\* The file system tool is not in use.
FIdle ==
    /\ fLinks = {}
    /\ fOp = "none"
    /\ fPath = NoFilename
    /\ fSecond = NoFilename
    /\ fPc = "off"
    /\ fResult = "none"
    /\ fAccessed = {}

\* file_system.py:398-449: the call is made.
FCall ==
    /\ fPc = "call"
    /\ \E out \in { ToolFileSystem(fOp, fPath, fSecond, fLinks) } :
        /\ fResult' = out.result
        /\ fAccessed' = out.accessed
    /\ fPc' = "done"
    /\ UNCHANGED <<fLinks, fOp, fPath, fSecond>>
    /\ UNCHANGED FRest

FNext == FCall

(***************************************************************************)
(* Part 8.  The background tasks of one request: agent.py 356-375,         *)
(* 687-703, 705-875, 945-954; main.py 56-81                                *)
(***************************************************************************)

\* What the tools of one turn leave behind: a failure of the last tool
\* (agent.py:746-873), a forget call (agent.py:718-723), a learn_skill or
\* update_profile call (agent.py:690), force_stop (agent.py:769, 858) and a
\* planner thought that says READY TO FINALIZE (agent.py:947).
TurnOutcomes ==
    [failure : BOOLEAN, forget : BOOLEAN, meta : BOOLEAN,
     stop : BOOLEAN, ready : BOOLEAN]

\* agent.py:356-362: the locals of handle_chat before the first turn.
BFresh ==
    [force_stop |-> FALSE, last_was_failure |-> FALSE,
     forget_was_called |-> FALSE, was_complex_task |-> FALSE,
     meta_called |-> FALSE, ready |-> FALSE]

\* A request arrives: from the HTTP route with a BackgroundTasks object, or
\* from a scheduler job with background_tasks=None (main.py:79).  smart is
\* args.smart_memory > 0.0, user is a non-empty last user message and
\* intent is a learn/skill/profile/... keyword in it (agent.py:688-689).
BInit ==
    /\ bCfg \in [background : {"none", "tasks"}, smart : BOOLEAN,
                 user : BOOLEAN, intent : BOOLEAN]
    /\ bPc = "turn"
    /\ bTurn = 0
    /\ bFlags = BFresh
    /\ bEfc = 0
    /\ bDispatched = {}

\* No request is at its background tasks.
BIdle ==
    /\ bCfg = [background |-> "tasks", smart |-> FALSE,
               user |-> FALSE, intent |-> FALSE]
    /\ bPc = "off"
    /\ bTurn = 0
    /\ bFlags = BFresh
    /\ bEfc = 0
    /\ bDispatched = {}

\* agent.py:373: a turn after the third makes the task a complex one.
Complex(turn, flags) == flags.was_complex_task \/ turn > 2

\* agent.py:370, 375, 879: one more pass of `for turn in range(20)`.
Advance(turn) ==
    /\ bTurn' = turn + 1
    /\ bPc' = IF turn + 1 < MaxTurns THEN "turn" ELSE "post"

\* agent.py:374: force_stop at the head of a turn ends the loop.
BForceStop ==
    /\ bPc = "turn"
    /\ bFlags.force_stop
    /\ bFlags' = [bFlags EXCEPT !.was_complex_task = Complex(bTurn, bFlags)]
    /\ bPc' = "post"
    /\ UNCHANGED <<bCfg, bTurn, bEfc, bDispatched>>
    /\ UNCHANGED BRest

\* agent.py:705-875: a reply with tool calls; the tools are run.
BToolTurn(out) ==
    /\ bPc = "turn"
    /\ ~bFlags.force_stop
    /\ bFlags' = [force_stop |-> out.stop,
                  last_was_failure |-> out.failure,
                  forget_was_called |-> bFlags.forget_was_called \/ out.forget,
                  was_complex_task |-> Complex(bTurn, bFlags),
                  meta_called |-> bFlags.meta_called \/ out.meta,
                  ready |-> out.ready]
    /\ bEfc' = IF out.failure THEN Min(bEfc + 1, FailLimit) ELSE bEfc
    /\ Advance(bTurn)
    /\ UNCHANGED <<bCfg, bDispatched>>
    /\ UNCHANGED BRest

\* agent.py:687-698: a reply without tool calls to a request that asked for
\* a lesson or a profile update which no tool has recorded yet.
BNudge ==
    /\ bPc = "turn"
    /\ ~bFlags.force_stop
    /\ bCfg.user /\ bCfg.intent /\ ~bFlags.meta_called /\ bTurn < NudgeTurns
    /\ bFlags' = [bFlags EXCEPT !.was_complex_task = Complex(bTurn, bFlags)]
    /\ Advance(bTurn)
    /\ UNCHANGED <<bCfg, bEfc, bDispatched>>
    /\ UNCHANGED BRest

\* agent.py:700: the smart memory task is due.
SmartMemoryDue(cfg, flags) ==
    cfg.smart /\ cfg.user /\ ~flags.forget_was_called /\ ~flags.last_was_failure

\* agent.py:687, 700-703: a reply without tool calls ends the loop.
\* background_tasks.add_task is called on whatever the caller passed: on
\* None it is an AttributeError, which handle_chat does not catch
\* (agent.py:954 is a finally) and proactive_runner logs (main.py:80-81).
BFinalReply ==
    /\ bPc = "turn"
    /\ ~bFlags.force_stop
    /\ ~(bCfg.user /\ bCfg.intent /\ ~bFlags.meta_called /\ bTurn < NudgeTurns)
    /\ bFlags' = [bFlags EXCEPT !.was_complex_task = Complex(bTurn, bFlags)]
    /\ IF SmartMemoryDue(bCfg, bFlags)
       THEN IF bCfg.background = "none"
            THEN bPc' = "raised" /\ UNCHANGED bDispatched
            ELSE /\ bDispatched' = bDispatched \cup {"smart_memory"}
                 /\ bPc' = "post"
       ELSE bPc' = "post" /\ UNCHANGED bDispatched
    /\ UNCHANGED <<bCfg, bTurn, bEfc>>
    /\ UNCHANGED BRest

\* agent.py:946-952: the post-mortem is due.
PostMortemDue(flags, efc) ==
    /\ flags.was_complex_task \/ efc > 0
    /\ (~flags.force_stop \/ flags.ready) \/ efc >= FailLimit

\* agent.py:945-954: the post-mortem task, then the final response.
BPostProcess ==
    /\ bPc = "post"
    /\ bDispatched' =
          IF PostMortemDue(bFlags, bEfc) /\ bCfg.background = "tasks"
          THEN bDispatched \cup {"post_mortem"}
          ELSE bDispatched
    /\ bPc' = "returned"
    /\ UNCHANGED <<bCfg, bTurn, bFlags, bEfc>>
    /\ UNCHANGED BRest

BNext ==
    \/ BForceStop
    \/ \E out \in TurnOutcomes : BToolTurn(out)
    \/ BNudge
    \/ BFinalReply
    \/ BPostProcess

(***************************************************************************)
(* Part 9.  The profile and playbook files: memory/profile.py 9-26,        *)
(* memory/skills.py 11-32, 91-95; core/dream.py 139                        *)
(***************************************************************************)

\* Bound: save calls made on one store.
MaxSaves == 3
\* Bound: pieces in which the JSON text reaches or leaves the disk.
Chunks == 2

\* Threads 1 and 2 call save and load (tools run in worker threads); the
\* dreamer reads the playbook file without the lock (dream.py:139).
Callers == {1, 2}
Dreamer == 3
Threads == Callers \cup {Dreamer}

\* A path that is the file itself.
SamePath == "file"

\* profile.py:10, skills.py:13  self.file_path
FilePath == "file"
\* profile.py:24, skills.py:21  self.file_path.with_suffix('.tmp')
TempPath == "tmp"

NoLocal == [ver |-> 0, fd |-> 0, got |-> <<>>]

\* The whole text of one version.
Whole(v) == [i \in 1..Chunks |-> v]

\* profile.py:12-13, skills.py:15-16: the constructor has saved the first
\* content (version 0) before any thread uses the store.
SInit ==
    /\ sKind \in {"profile", "playbook"}
    /\ sDir = [file |-> 1, tmp |-> 0]
    /\ sInode = [n \in 1..(MaxSaves + 1) |-> IF n = 1 THEN Whole(0) ELSE <<>>]
    /\ sNextInode = 1
    /\ sSaves = 0
    /\ sLock = 0
    /\ sPc = [t \in Threads |-> "idle"]
    /\ sLocal = [t \in Threads |-> NoLocal]
    /\ sResults = {}

\* No store is in use.
SIdle ==
    /\ sKind = "none"
    /\ sDir = [file |-> 0, tmp |-> 0]
    /\ sInode = <<>>
    /\ sNextInode = 0
    /\ sSaves = 0
    /\ sLock = 0
    /\ sPc = <<>>
    /\ sLocal = <<>>
    /\ sResults = {}

\* profile.py:23, skills.py:20: save enters `with self._lock`.
SaveEnter(t) ==
    /\ sPc[t] = "idle"
    /\ sSaves < MaxSaves
    /\ sLock = 0
    /\ sLock' = t
    /\ sSaves' = sSaves + 1
    /\ sLocal' = [sLocal EXCEPT ![t] = [ver |-> sSaves + 1, fd |-> 0, got |-> <<>>]]
    /\ sPc' = [sPc EXCEPT ![t] = "save_open"]
    /\ UNCHANGED <<sKind, sDir, sInode, sNextInode, sResults>>
    /\ UNCHANGED SRest

\* profile.py:24-25, skills.py:21-22: write_text opens the temp path for
\* writing: a new inode when the name does not exist, the named inode
\* truncated when it does.
SaveOpen(t) ==
    /\ sPc[t] = "save_open"
    /\ IF sDir[TempPath] = 0
       THEN /\ sNextInode' = sNextInode + 1
            /\ sDir' = [sDir EXCEPT ![TempPath] = sNextInode + 1]
            /\ sInode' = [sInode EXCEPT ![sNextInode + 1] = <<>>]
            /\ sLocal' = [sLocal EXCEPT ![t].fd = sNextInode + 1]
       ELSE /\ sInode' = [sInode EXCEPT ![sDir[TempPath]] = <<>>]
            /\ sLocal' = [sLocal EXCEPT ![t].fd = sDir[TempPath]]
            /\ UNCHANGED <<sNextInode, sDir>>
    /\ sPc' = [sPc EXCEPT ![t] = "save_write"]
    /\ UNCHANGED <<sKind, sSaves, sLock, sResults>>
    /\ UNCHANGED SRest

\* profile.py:25, skills.py:22: write_text writes the next piece of the
\* text at its own offset of the open inode.
SaveWrite(t) ==
    /\ sPc[t] = "save_write"
    /\ \E k \in { Len(sLocal[t].got) + 1 } :
        /\ sInode' = [sInode EXCEPT ![sLocal[t].fd] =
              [i \in 1..(IF Len(@) < k THEN k ELSE Len(@)) |->
                  IF i = k THEN sLocal[t].ver
                  ELSE IF i <= Len(@) THEN @[i] ELSE -1]]
        /\ sLocal' = [sLocal EXCEPT ![t].got = Append(@, sLocal[t].ver)]
        /\ sPc' = [sPc EXCEPT ![t] = IF k = Chunks THEN "save_replace" ELSE "save_write"]
    /\ UNCHANGED <<sKind, sDir, sNextInode, sSaves, sLock, sResults>>
    /\ UNCHANGED SRest

\* profile.py:26, skills.py:23: os.replace(temp_path, self.file_path), one
\* atomic change of the directory; replacing a path by itself changes
\* nothing.
SaveReplace(t) ==
    /\ sPc[t] = "save_replace"
    /\ sDir' = IF TempPath = FilePath THEN sDir
               ELSE [sDir EXCEPT ![FilePath] = sDir[TempPath], ![TempPath] = 0]
    /\ sPc' = [sPc EXCEPT ![t] = "save_exit"]
    /\ UNCHANGED <<sKind, sInode, sNextInode, sSaves, sLock, sLocal, sResults>>
    /\ UNCHANGED SRest

\* profile.py:23, skills.py:20: save leaves `with self._lock`.
SaveExit(t) ==
    /\ sPc[t] = "save_exit"
    /\ sLock' = 0
    /\ sLocal' = [sLocal EXCEPT ![t] = NoLocal]
    /\ sPc' = [sPc EXCEPT ![t] = "idle"]
    /\ UNCHANGED <<sKind, sDir, sInode, sNextInode, sSaves, sResults>>
    /\ UNCHANGED SRest

\* profile.py:16, skills.py:27, 91: a read enters `with self._lock`.
LoadEnter(t) ==
    /\ sPc[t] = "idle"
    /\ t \in Callers
    /\ sLock = 0
    /\ sLock' = t
    /\ sPc' = [sPc EXCEPT ![t] = "load_open"]
    /\ UNCHANGED <<sKind, sDir, sInode, sNextInode, sSaves, sLocal, sResults>>
    /\ UNCHANGED SRest

\* dream.py:139: the dreamer reads the playbook file without the lock.
DreamEnter(t) ==
    /\ sPc[t] = "idle"
    /\ t = Dreamer
    /\ sKind = "playbook"
    /\ sPc' = [sPc EXCEPT ![t] = "load_open"]
    /\ UNCHANGED <<sKind, sDir, sInode, sNextInode, sSaves, sLock, sLocal, sResults>>
    /\ UNCHANGED SRest

\* profile.py:18, skills.py:29, 93, dream.py:139: read_text opens the file.
LoadOpen(t) ==
    /\ sPc[t] = "load_open"
    /\ sLocal' = [sLocal EXCEPT ![t] = [ver |-> 0, fd |-> sDir[FilePath], got |-> <<>>]]
    /\ sPc' = [sPc EXCEPT ![t] = "load_read"]
    /\ UNCHANGED <<sKind, sDir, sInode, sNextInode, sSaves, sLock, sResults>>
    /\ UNCHANGED SRest

\* read_text reads the next piece of the open inode; at the end of the
\* inode, or after the last piece, the read is complete and its result is
\* what it has got.
LoadRead(t) ==
    /\ sPc[t] = "load_read"
    /\ \E k \in { Len(sLocal[t].got) + 1 } :
        IF k <= Chunks /\ k <= Len(sInode[sLocal[t].fd])
        THEN /\ sLocal' = [sLocal EXCEPT ![t].got = Append(@, sInode[sLocal[t].fd][k])]
             /\ UNCHANGED <<sPc, sResults, sLock>>
        ELSE /\ sResults' = sResults \cup { sLocal[t].got }
             /\ sLocal' = [sLocal EXCEPT ![t] = NoLocal]
             /\ sPc' = [sPc EXCEPT ![t] = "idle"]
             /\ sLock' = IF sLock = t THEN 0 ELSE sLock
    /\ UNCHANGED <<sKind, sDir, sInode, sNextInode, sSaves>>
    /\ UNCHANGED SRest

SNext ==
    \E t \in Threads :
        \/ SaveEnter(t)
        \/ SaveOpen(t)
        \/ SaveWrite(t)
        \/ SaveReplace(t)
        \/ SaveExit(t)
        \/ LoadEnter(t)
        \/ DreamEnter(t)
        \/ LoadOpen(t)
        \/ LoadRead(t)

(***************************************************************************)
(* Part 10.  Requests sharing one context: agent.py 41-55, 356, 376-389,   *)
(* 735-772; main.py 194, 256                                               *)
(***************************************************************************)

\* Bound: turns of one request.
MaxCtxTurns == 2

\* Requests running at the same time on the one agent (main.py:194) and
\* its one GhostContext (main.py:256).
Requests == {1, 2}

\* agent.py:55  self.cached_sandbox_state = None
NoListing == [listing |-> -1, by |-> 0]

\* The calls a reply can make: a read-only call, always with the same
\* arguments, or an execute.
CtxCalls == {"read", "execute"}

\* agent.py:356: seen_tools is a local of handle_chat; the cached listing
\* is a field of the context (agent.py:55).
XInit ==
    /\ xIntent \in [Requests -> BOOLEAN]
    /\ xCache = NoListing
    /\ xDisk = 0
    /\ xPc = [r \in Requests |-> "turn"]
    /\ xTurn = [r \in Requests |-> 0]
    /\ xSeen = [r \in Requests |-> {}]
    /\ xListing = [r \in Requests |-> -1]
    /\ xRunning = [r \in Requests |-> "none"]
    /\ xForeign = {}

\* No requests share the context.
XIdle ==
    /\ xIntent = <<>>
    /\ xCache = NoListing
    /\ xDisk = 0
    /\ xPc = <<>>
    /\ xTurn = <<>>
    /\ xSeen = <<>>
    /\ xListing = <<>>
    /\ xRunning = <<>>
    /\ xForeign = {}

\* agent.py:377, 388-389: no coding intent, the listing is "N/A".
XNoListing(r) ==
    /\ xPc[r] = "turn"
    /\ ~xIntent[r]
    /\ xPc' = [xPc EXCEPT ![r] = "llm"]
    /\ UNCHANGED <<xIntent, xCache, xDisk, xTurn, xSeen, xListing, xRunning, xForeign>>
    /\ UNCHANGED XRest

\* agent.py:378-384: nothing is cached, tool_list_files is awaited.
XListBegin(r) ==
    /\ xPc[r] = "turn"
    /\ xIntent[r]
    /\ xCache.listing = -1
    /\ xPc' = [xPc EXCEPT ![r] = "listing"]
    /\ UNCHANGED <<xIntent, xCache, xDisk, xTurn, xSeen, xListing, xRunning, xForeign>>
    /\ UNCHANGED XRest

\* agent.py:384-385: the listing is back and is stored in the context.
XListEnd(r) ==
    /\ xPc[r] = "listing"
    /\ xListing' = [xListing EXCEPT ![r] = xDisk]
    /\ xForeign' = IF xCache.by \notin {0, r}
                   THEN xForeign \cup {[op |-> "store", of |-> r, on |-> xCache.by]}
                   ELSE xForeign
    /\ xCache' = [listing |-> xDisk, by |-> r]
    /\ xPc' = [xPc EXCEPT ![r] = "llm"]
    /\ UNCHANGED <<xIntent, xDisk, xTurn, xSeen, xRunning>>
    /\ UNCHANGED XRest

\* agent.py:386-387: the cached listing is used.
XUseCache(r) ==
    /\ xPc[r] = "turn"
    /\ xIntent[r]
    /\ xCache.listing # -1
    /\ xListing' = [xListing EXCEPT ![r] = xCache.listing]
    /\ xForeign' = IF xCache.by # r
                   THEN xForeign \cup {[op |-> "use", of |-> r, on |-> xCache.by]}
                   ELSE xForeign
    /\ xPc' = [xPc EXCEPT ![r] = "llm"]
    /\ UNCHANGED <<xIntent, xCache, xDisk, xTurn, xSeen, xRunning>>
    /\ UNCHANGED XRest

\* agent.py:370, 879: the next turn of the request, if it has one.
NextTurn(r) ==
    /\ xTurn' = [xTurn EXCEPT ![r] = @ + 1]
    /\ xPc' = [xPc EXCEPT ![r] = IF xTurn[r] + 1 < MaxCtxTurns THEN "turn" ELSE "done"]

\* agent.py:687-703: a reply without tool calls ends the request.
XFinalReply(r) ==
    /\ xPc[r] = "llm"
    /\ xPc' = [xPc EXCEPT ![r] = "done"]
    /\ UNCHANGED <<xIntent, xCache, xDisk, xTurn, xSeen, xListing, xRunning, xForeign>>
    /\ UNCHANGED XRest

\* agent.py:735-739, 749-754, 772: an execute call is dispatched: the
\* listing cached in the context is dropped and seen_tools is cleared,
\* then the call is recorded and started.
XDispatchExecute(r) ==
    /\ xPc[r] = "llm"
    /\ xForeign' = IF xCache.by \notin {0, r}
                   THEN xForeign \cup {[op |-> "drop", of |-> r, on |-> xCache.by]}
                   ELSE xForeign
    /\ xCache' = NoListing
    /\ xSeen' = [xSeen EXCEPT ![r] = {"execute"}]
    /\ xRunning' = [xRunning EXCEPT ![r] = "execute"]
    /\ xPc' = [xPc EXCEPT ![r] = "tool"]
    /\ UNCHANGED <<xIntent, xDisk, xTurn, xListing>>
    /\ UNCHANGED XRest

\* agent.py:756-772: a read-only call is dispatched: blocked as redundant
\* when it is in seen_tools, recorded and started otherwise.
XDispatchRead(r) ==
    /\ xPc[r] = "llm"
    /\ IF "read" \in xSeen[r]
       THEN /\ NextTurn(r)
            /\ UNCHANGED <<xSeen, xRunning>>
       ELSE /\ xSeen' = [xSeen EXCEPT ![r] = @ \cup {"read"}]
            /\ xRunning' = [xRunning EXCEPT ![r] = "read"]
            /\ xPc' = [xPc EXCEPT ![r] = "tool"]
            /\ UNCHANGED xTurn
    /\ UNCHANGED <<xIntent, xCache, xDisk, xListing, xForeign>>
    /\ UNCHANGED XRest

\* agent.py:828: the tool has run; an execute has changed the sandbox.
XToolDone(r) ==
    /\ xPc[r] = "tool"
    /\ xDisk' = IF xRunning[r] = "execute" THEN xDisk + 1 ELSE xDisk
    /\ xRunning' = [xRunning EXCEPT ![r] = "none"]
    /\ NextTurn(r)
    /\ UNCHANGED <<xIntent, xCache, xSeen, xListing, xForeign>>
    /\ UNCHANGED XRest

XNext ==
    \E r \in Requests :
        \/ XNoListing(r)
        \/ XListBegin(r)
        \/ XListEnd(r)
        \/ XUseCache(r)
        \/ XFinalReply(r)
        \/ XDispatchExecute(r)
        \/ XDispatchRead(r)
        \/ XToolDone(r)

(***************************************************************************)
(* Part 11.  Swarm delegation: src/src/ghost_agent/tools/swarm.py;         *)
(* core/llm.py 98-110                                                      *)
(***************************************************************************)

\* Bound: task definitions in the tasks argument of one call.
MaxSwarmTasks == 2

\* A task definition: given is whether instruction and input_data are
\* both non-empty, key the output_key ("" for a missing one), target the
\* target_model.
TaskDefs == [given : BOOLEAN, key : {"", "k1", "k2"}, target : {<<>>, <<"Q", "B">>}]
NoTask == [given |-> FALSE, key |-> "", target |-> <<>>]

\* What a POST to the node ends with: a reply with a text, a reply whose
\* content is null, a 5xx status, a refused connection, the 300 s timeout.
PostOutcomes == {"ok", "null_content", "http_error", "connect_error", "timeout"}

\* A worker that writes only when the node answered.
WritesOnSuccessOnly(out) == IF out = "ok" THEN <<"result">> ELSE <<>>

\* swarm.py:27-39: the scratchpad.set calls a worker makes for an outcome
\* of its POST: the text on success, the alert from the except branch for
\* any exception (raise_for_status, the transport, .strip() on None).
WorkerWrites(out) == IF out = "ok" THEN <<"result">> ELSE <<"alert_offline">>

WInit ==
    /\ wNodes \in 0..MaxNodes
    /\ wPad \in BOOLEAN
    /\ wTasks \in SeqsUpTo(TaskDefs, MaxSwarmTasks)
    /\ wLegacy \in {NoTask, [given |-> TRUE, key |-> "k1", target |-> <<>>]}
    /\ wPc = "call"
    /\ wResult = "none"
    /\ wIdx = 0
    /\ wWorkers = <<>>
    /\ wWrites = <<>>

\* No delegation is looked at.
WIdle ==
    /\ wNodes = 0
    /\ wPad = FALSE
    /\ wTasks = <<>>
    /\ wLegacy = NoTask
    /\ wPc = "off"
    /\ wResult = "none"
    /\ wIdx = 0
    /\ wWorkers = <<>>
    /\ wWrites = <<>>

\* swarm.py:65-73: a definition without instruction, input_data or
\* output_key is skipped.
Accepted(def) == def.given /\ def.key # ""

\* swarm.py:41-78  tool_delegate_to_swarm: no await in it, so the workers
\* it creates have not run when it returns.
WDelegate ==
    /\ wPc = "call"
    /\ \E tasks \in { IF Accepted(wLegacy) THEN Append(wTasks, wLegacy) ELSE wTasks } :
        IF ~wPad THEN
            /\ wResult' = "error_no_scratchpad"
            /\ UNCHANGED <<wWorkers, wWrites>>
        ELSE IF wNodes = 0 THEN
            /\ wResult' = "warning_no_cluster"
            /\ UNCHANGED <<wWorkers, wWrites>>
        ELSE IF tasks = <<>> THEN
            /\ wResult' = "error_no_tasks"
            /\ UNCHANGED <<wWorkers, wWrites>>
        ELSE
            /\ wResult' = "success"
            /\ \E acc \in { SelectSeq(tasks, Accepted) } :
                /\ wWorkers' = [i \in 1..Len(acc) |->
                                  [key |-> acc[i].key, target |-> acc[i].target,
                                   pc |-> "created", node |-> 0]]
                /\ wWrites' = [i \in 1..Len(acc) |-> <<>>]
    /\ wPc' = "returned"
    /\ UNCHANGED <<wNodes, wPad, wTasks, wLegacy, wIdx>>
    /\ UNCHANGED WRest

\* swarm.py:9-30: the worker takes a node and posts to it; without a node
\* it sets the alert and ends.
WWorkerStart(i) ==
    /\ i \in DOMAIN wWorkers
    /\ wWorkers[i].pc = "created"
    /\ IF wNodes = 0
       THEN /\ wWrites' = [wWrites EXCEPT ![i] = Append(@, "alert_no_nodes")]
            /\ wWorkers' = [wWorkers EXCEPT ![i].pc = "done"]
            /\ UNCHANGED wIdx
       ELSE \E sel \in { GetNode(wNodes, wIdx, wWorkers[i].target) } :
            /\ wWorkers' = [wWorkers EXCEPT ![i].pc = "posting", ![i].node = sel.node]
            /\ wIdx' = sel.idx
            /\ UNCHANGED wWrites
    /\ UNCHANGED <<wNodes, wPad, wTasks, wLegacy, wPc, wResult>>
    /\ UNCHANGED WRest

\* swarm.py:30-39: the POST is over; the result or the alert is set.
WWorkerReply(i, out) ==
    /\ i \in DOMAIN wWorkers
    /\ wWorkers[i].pc = "posting"
    /\ wWrites' = [wWrites EXCEPT ![i] = @ \o WorkerWrites(out)]
    /\ wWorkers' = [wWorkers EXCEPT ![i].pc = "done"]
    /\ UNCHANGED <<wNodes, wPad, wTasks, wLegacy, wPc, wResult, wIdx>>
    /\ UNCHANGED WRest

WNext ==
    \/ WDelegate
    \/ \E i \in 1..(MaxSwarmTasks + 1) : WWorkerStart(i)
    \/ \E i \in 1..(MaxSwarmTasks + 1), out \in PostOutcomes : WWorkerReply(i, out)

(***************************************************************************)
(* Part 12.  Task tree (core/planning.py, which src/ lacks): modelled on   *)
(* the specification's TaskNode / TaskTree and on                          *)
(* src/tests/test_planning_failure.py                                      *)
(***************************************************************************)

\* Bound: nodes of one tree.
MaxTreeNodes == 4

TaskStatuses == {"PENDING", "READY", "IN_PROGRESS", "DONE", "FAILED", "BLOCKED"}

NoOp == [op |-> "none", id |-> 0, status |-> "PENDING"]

\* TaskTree(): created empty.
GInit ==
    /\ gOn = TRUE
    /\ gParent = <<>>
    /\ gStatus = <<>>
    /\ gLast = NoOp

\* No task tree is looked at.
GIdle ==
    /\ gOn = FALSE
    /\ gParent = <<>>
    /\ gStatus = <<>>
    /\ gLast = NoOp

\* The ancestors of node n: its parent, the parent's parent, ...
RECURSIVE Ancestors(_, _)
Ancestors(parent, n) ==
    IF parent[n] = 0 THEN {} ELSE {parent[n]} \cup Ancestors(parent, parent[n])

\* A propagation that stops at the parent.
BlockParentOnly(parent, n) == {parent[n]} \ {0}

\* The nodes a FAILED or BLOCKED status of n is propagated to: all its
\* ancestors (test_failure_propagation: child and root of a grandchild).
BlockedBy(parent, n) == Ancestors(parent, n)

\* add_task(description, parent_id, status): the first node is the root,
\* every later node hangs under an existing one.
GAddTask(par, st) ==
    /\ gOn
    /\ Len(gParent) < MaxTreeNodes
    /\ par = 0 <=> gParent = <<>>
    /\ par \in 0..Len(gParent)
    /\ gParent' = Append(gParent, par)
    /\ gStatus' = Append(gStatus, st)
    /\ gLast' = [op |-> "add_task", id |-> Len(gParent) + 1, status |-> st]
    /\ UNCHANGED gOn
    /\ UNCHANGED GRest

\* update_status(id, status): a DONE node keeps its status; FAILED and
\* BLOCKED make every ancestor that is not DONE BLOCKED.
GUpdateStatus(n, st) ==
    /\ gOn
    /\ n \in 1..Len(gParent)
    /\ IF gStatus[n] = "DONE"
       THEN UNCHANGED gStatus
       ELSE gStatus' = [m \in 1..Len(gStatus) |->
                IF m = n THEN st
                ELSE IF /\ st \in {"FAILED", "BLOCKED"}
                        /\ m \in BlockedBy(gParent, n)
                        /\ gStatus[m] # "DONE"
                     THEN "BLOCKED"
                ELSE gStatus[m]]
    /\ gLast' = [op |-> "update_status", id |-> n, status |-> st]
    /\ UNCHANGED <<gOn, gParent>>
    /\ UNCHANGED GRest

GNext ==
    \/ \E par \in 0..MaxTreeNodes, st \in {"PENDING", "IN_PROGRESS"} : GAddTask(par, st)
    \/ \E n \in 1..MaxTreeNodes, st \in TaskStatuses : GUpdateStatus(n, st)

(***************************************************************************)
(* Part 13.  Intake of the transcript: agent.py 265-270                    *)
(***************************************************************************)

\* agent.py:267-268 caps the history at 500 messages; the model runs the
\* same code with a cap of IntakeCap messages.
IntakeCap == 3
\* Bound: how many messages longer than the cap a transcript is.
MaxOverCap == 2

IntakeRoles == {"system", "user", "assistant"}

\* messages[-n:]
LastN(ms, n) == IF Len(ms) <= n THEN ms ELSE SubSeq(ms, Len(ms) - n + 1, Len(ms))

\* agent.py:267-268
\*   if len(messages) > 500:
\*       messages = [m for m in messages if role == "system"] + messages[-500:]
CapHistory(ms) ==
    IF Len(ms) > IntakeCap THEN SystemMsgs(ms) \o LastN(ms, IntakeCap) ELSE ms

\* A transcript: each message has its role and, as its content, its place
\* in the transcript.
IInit ==
    /\ \E roles \in SeqsUpTo(IntakeRoles, IntakeCap + MaxOverCap) :
          iMsgs = [k \in 1..Len(roles) |-> [role |-> roles[k], content |-> k]]
    /\ iOut = <<>>
    /\ iPc = "request"

\* No transcript is looked at.
IIdle ==
    /\ iMsgs = <<>>
    /\ iOut = <<>>
    /\ iPc = "off"

\* agent.py:265-270: the intake of handle_chat.
Intake ==
    /\ iPc = "request"
    /\ iOut' = CapHistory(iMsgs)
    /\ iPc' = "taken"
    /\ UNCHANGED iMsgs
    /\ UNCHANGED IRest

INext == Intake

(***************************************************************************)
(* Part 14.  Updates of the profile: memory/profile.py 15-142,             *)
(* agent.py 225-231                                                        *)
(***************************************************************************)

\* Threads calling update or delete at the same time (agent.py:226
\* asyncio.to_thread), each on a key of its own.
Updaters == {1, 2}
KeyOf(t) == IF t = 1 THEN "k1" ELSE "k2"
ProfileKeys == { KeyOf(t) : t \in Updaters }

\* What the profile holds under a key.
NoEntry == "absent"
NoData == [k \in ProfileKeys |-> NoEntry]

UInit ==
    /\ uFile \in [ProfileKeys -> {NoEntry, "old"}]
    /\ uOp \in [Updaters -> {"update", "delete"}]
    /\ uPc = [t \in Updaters |-> "call"]
    /\ uData = [t \in Updaters |-> NoData]

\* No thread updates the profile.
UIdle ==
    /\ uFile = <<>>
    /\ uOp = <<>>
    /\ uPc = <<>>
    /\ uData = <<>>

\* profile.py:15-20, 115, 130: data = self.load(), which reads the file
\* under the lock and releases the lock when it returns.
ULoad(t) ==
    /\ uPc[t] = "call"
    /\ uData' = [uData EXCEPT ![t] = uFile]
    /\ uPc' = [uPc EXCEPT ![t] = "loaded"]
    /\ UNCHANGED <<uFile, uOp>>
    /\ UNCHANGED URest

\* profile.py:122-126 data[cat][target_key] = v, and 134-138 del
\* data[cat][k] when the key is in data: the dict the thread loaded, changed.
Changed(data, op, k) ==
    IF op = "update" THEN [data EXCEPT ![k] = "new"] ELSE [data EXCEPT ![k] = NoEntry]

\* profile.py:22-26, 126, 138: self.save(data) writes the whole dict of the
\* thread over the file, under the lock; a delete of a key that data does
\* not hold returns without saving (profile.py:133, 142).
USave(t) ==
    /\ uPc[t] = "loaded"
    /\ uFile' = IF uOp[t] = "delete" /\ uData[t][KeyOf(t)] = NoEntry
                THEN uFile
                ELSE Changed(uData[t], uOp[t], KeyOf(t))
    /\ uPc' = [uPc EXCEPT ![t] = "done"]
    /\ UNCHANGED <<uOp, uData>>
    /\ UNCHANGED URest

UNext == \E t \in Updaters : ULoad(t) \/ USave(t)

(***************************************************************************)
(* Specifications                                                          *)
(***************************************************************************)

\* prune and rolling_window applied to every bounded message list.
InitCM == CmInit /\ RIdle /\ LIdle /\ TIdle /\ AIdle /\ PIdle /\ FIdle /\ BIdle /\ SIdle /\ XIdle /\ WIdle /\ GIdle /\ IIdle /\ UIdle
SpecCM == InitCM /\ [][CmNext]_vars

\* chat_completion calls on one client.
InitRouter == CmIdle /\ RInit /\ LIdle /\ TIdle /\ AIdle /\ PIdle /\ FIdle /\ BIdle /\ SIdle /\ XIdle /\ WIdle /\ GIdle /\ IIdle /\ UIdle
SpecRouter == InitRouter /\ [][RNext]_vars

\* Calls on a client shared with concurrent calls.
InitRouterConcurrent == CmIdle /\ RInitPools /\ LIdle /\ TIdle /\ AIdle /\ PIdle /\ FIdle /\ BIdle /\ SIdle /\ XIdle /\ WIdle /\ GIdle /\ IIdle /\ UIdle
SpecRouterConcurrent == InitRouterConcurrent /\ [][RNextConcurrent]_vars

\* One turn of a request that has used a tool up to its cap.
InitTurnUsed == CmIdle /\ RIdle /\ LIdle /\ TInitUsed /\ AIdle /\ PIdle /\ FIdle /\ BIdle /\ SIdle /\ XIdle /\ WIdle /\ GIdle /\ IIdle /\ UIdle
SpecTurnUsed == InitTurnUsed /\ [][TNext]_vars

\* One request through the reasoning loop.
Init == CmIdle /\ RIdle /\ LInit /\ TIdle /\ AIdle /\ PIdle /\ FIdle /\ BIdle /\ SIdle /\ XIdle /\ WIdle /\ GIdle /\ IIdle /\ UIdle
Spec == Init /\ [][LNext]_vars

\* One turn with tool calls.
InitTurn == CmIdle /\ RIdle /\ LIdle /\ TInit /\ AIdle /\ PIdle /\ FIdle /\ BIdle /\ SIdle /\ XIdle /\ WIdle /\ GIdle /\ IIdle /\ UIdle
SpecTurn == InitTurn /\ [][TNext]_vars

\* One turn whose calls read and change a file.
InitMutation == CmIdle /\ RIdle /\ LIdle /\ TInitMutation /\ AIdle /\ PIdle /\ FIdle /\ BIdle /\ SIdle /\ XIdle /\ WIdle /\ GIdle /\ IIdle /\ UIdle
SpecMutation == InitMutation /\ [][TNext]_vars

\* Requests arriving at one agent.
InitAdmission == CmIdle /\ RIdle /\ LIdle /\ TIdle /\ AInit /\ PIdle /\ FIdle /\ BIdle /\ SIdle /\ XIdle /\ WIdle /\ GIdle /\ IIdle /\ UIdle
SpecAdmission == InitAdmission /\ [][ANext]_vars
\* The event loop runs every task that can run: a waiter is woken when a
\* slot is free, an awaited call comes back, and a request leaves the block
\* after the at most 20 turns of its loop.
SpecAdmissionFair ==
    /\ SpecAdmission
    /\ WF_vars(AAcquire)
    /\ WF_vars(AUpstreamReturn)
    /\ WF_vars(AStreamEnd)
    /\ SF_vars(AReturn \/ AReturnStream)

\* One turn from its planner call to its responder call.
InitPlan == CmIdle /\ RIdle /\ LIdle /\ TIdle /\ AIdle /\ PInit /\ FIdle /\ BIdle /\ SIdle /\ XIdle /\ WIdle /\ GIdle /\ IIdle /\ UIdle
SpecPlan == InitPlan /\ [][PNext]_vars

\* One call of the file system tool.
InitFs == CmIdle /\ RIdle /\ LIdle /\ TIdle /\ AIdle /\ PIdle /\ FInit /\ BIdle /\ SIdle /\ XIdle /\ WIdle /\ GIdle /\ IIdle /\ UIdle
SpecFs == InitFs /\ [][FNext]_vars

\* The background tasks of one request.
InitBackground == CmIdle /\ RIdle /\ LIdle /\ TIdle /\ AIdle /\ PIdle /\ FIdle /\ BInit /\ SIdle /\ XIdle /\ WIdle /\ GIdle /\ IIdle /\ UIdle
SpecBackground == InitBackground /\ [][BNext]_vars

\* Threads saving and loading one store.
InitStore == CmIdle /\ RIdle /\ LIdle /\ TIdle /\ AIdle /\ PIdle /\ FIdle /\ BIdle /\ SInit /\ XIdle /\ WIdle /\ GIdle /\ IIdle /\ UIdle
SpecStore == InitStore /\ [][SNext]_vars

\* Two requests on the one context.
InitContext == CmIdle /\ RIdle /\ LIdle /\ TIdle /\ AIdle /\ PIdle /\ FIdle /\ BIdle /\ SIdle /\ XInit /\ WIdle /\ GIdle /\ IIdle /\ UIdle
SpecContext == InitContext /\ [][XNext]_vars

\* One delegate_to_swarm call and its workers; every POST ends (it has a
\* timeout) and the event loop runs every task that is ready.
InitSwarm == CmIdle /\ RIdle /\ LIdle /\ TIdle /\ AIdle /\ PIdle /\ FIdle /\ BIdle /\ SIdle /\ XIdle /\ WInit /\ GIdle /\ IIdle /\ UIdle
SpecSwarm == InitSwarm /\ [][WNext]_vars
SpecSwarmFair == SpecSwarm /\ WF_vars(WNext)

\* Operations on one task tree.
InitTree == CmIdle /\ RIdle /\ LIdle /\ TIdle /\ AIdle /\ PIdle /\ FIdle /\ BIdle /\ SIdle /\ XIdle /\ WIdle /\ GInit /\ IIdle /\ UIdle
SpecTree == InitTree /\ [][GNext]_vars

\* The intake of one transcript.
InitIntake == CmIdle /\ RIdle /\ LIdle /\ TIdle /\ AIdle /\ PIdle /\ FIdle /\ BIdle /\ SIdle /\ XIdle /\ WIdle /\ GIdle /\ IInit /\ UIdle
SpecIntake == InitIntake /\ [][INext]_vars

\* Two threads changing the profile at the same time.
InitProfile == CmIdle /\ RIdle /\ LIdle /\ TIdle /\ AIdle /\ PIdle /\ FIdle /\ BIdle /\ SIdle /\ XIdle /\ WIdle /\ GIdle /\ IIdle /\ UInit
SpecProfile == InitProfile /\ [][UNext]_vars

\* One request in which the model never stops calling tools.
InitLong == CmIdle /\ RIdle /\ LInitLong /\ TIdle /\ AIdle /\ PIdle /\ FIdle /\ BIdle /\ SIdle /\ XIdle /\ WIdle /\ GIdle /\ IIdle /\ UIdle
SpecLong == InitLong /\ [][LNextLong]_vars

\* The same, every call that was started returning: the handler is a
\* coroutine that goes on whenever the call it awaits has returned.
SpecLongFair == SpecLong /\ WF_vars(LNextLong)

(***************************************************************************)
(* Properties of the reasoning loop                                        *)
(***************************************************************************)

\* C2 (as the specification states it): between two consecutive mutating
\* calls no non-mutating tool is run more than once with the same tool name
\* and the same arguments.
C2_NoRepeatOfAnyCall == hTwice = {}

\* C2: between two consecutive mutating calls (or the request start and the
\* first one) no non-mutating tool other than system_utility is run more
\* than once with the same tool name and the same arguments, whatever order
\* the argument keys are written in.
C2_NoRepeatedNonMutatingRun == \A h \in hTwice : h[1] = "system_utility"

C2_Witness ==
    /\ Cardinality(lCfg.calls) = 2
    /\ \A c \in lCfg.calls : c.name = "web_search" /\ c.args.ok
    /\ tool_usage["web_search"] = 2 /\ hRan["web_search"] = 1
    /\ lTurn = 2

\* C3: if the model emits the identical non-mutating call in three different
\* turns with no mutating call in between, the third issuance is not
\* executed, a redundancy alert is appended and force_stop is set.
C3_ThirdIssuanceForceStops ==
    hThird.seen => (~hThird.ran /\ hThird.alert /\ force_stop)

\* C4: the invocations actually run in one request are at most 10 for
\* deep_research, 10 for web_search, 20 for execute and 10 for every other
\* tool.
C4_UsageCaps ==
    /\ hRan["deep_research"] <= CapSearch
    /\ hRan["web_search"] <= CapSearch
    /\ hRan["execute"] <= CapExecute
    /\ \A t \in ToolNames \ {"deep_research", "web_search", "execute"} : hRan[t] <= CapOther

C4_Witness ==
    /\ hRan["execute"] = CapExecute
    /\ tool_usage["execute"] = CapExecute + 1
    /\ force_stop

C9_ThirdExecuteFailureStops ==
    hFail3.seen =>
        /\ hFail3.alert
        /\ ~hAfterFail3.tools
        /\ hAfterFail3.llm <= 1
        /\ ~hAfterFail3.other

\* C10: once force_stop has been set it is never cleared, and no planner
\* call, responder call or tool execution of a later turn occurs.
C10_ForceStopIsFinal ==
    /\ hFsTurn # -1 => force_stop
    /\ force_stop => (hFsTurn # -1 /\ hActTurn <= hFsTurn)

C10_Witness ==
    /\ force_stop /\ lPc = "done"
    /\ tools_run /\ hFsTurn = 1 /\ hActTurn = 1
    /\ final_ai = "text"


C12_ToolMessagesInEmissionOrder ==
    \A i, j \in 1..Len(tMsgs) : i < j => tMsgs[i].id < tMsgs[j].id

\* C13: at every instant at most 10 requests are executing any part of the
\* reasoning loop, their planner and responder upstream calls included,
\* streamed or not.
C13_AtMostTenInTheLoop ==
    aLoop + aCall + aStream <= AgentSlots

\* C14: a failing tool invocation (the tool raises, its name is unknown,
\* its arguments are not JSON or do not match the tool's parameters) never
\* makes the request raise: every call of the turn gets a tool message, and
\* the loop goes on.
C14_ToolFailureNeverRaises ==
    /\ tPc # "raised"
    /\ tPc = "done" => \A id \in 1..Len(tCalls) : \E k \in 1..Len(tMsgs) : tMsgs[k].id = id

\* C15: whenever the planner call raises or returns something that is not a
\* well-formed plan object (no JSON, no object, a missing or wrongly typed
\* field), the request does not fail, the "proceed to tool use" hint is in
\* the working list, and the responder call of the same turn follows.
C15_PlannerFailureInjectsHint ==
    (/\ pReply.kind # "none"
     /\ \/ pReply.kind # "object"
        \/ "absent" \in {pReply.thought, pReply.next, pReply.required}
        \/ pReply.required = "null")
    => /\ pPc # "raised"
       /\ pPc = "assemble" => HasHint(pMsgs)
       /\ pPc \in {"respond", "retry", "done"} => Len(pSent) >= 1

\* C18: every responder call of a request, the retry after an emergency
\* prune included, carries the transient injection as its last message, with
\* role system, after the unmodified working message list.
C18_InjectionIsLastMessage ==
    \A k \in 1..Len(pSent) :
        pSent[k].messages = Append(pSent[k].working, Injection)

\* C19: in every turn in which the planner returned required_tool = "none"
\* or next_action_id = "none", the responder request has no tools array.
C19_NoToolsWhenPlannerSaysNone ==
    (pReply.kind = "object" /\ (pReply.required = "none" \/ pReply.next = "none"))
    => \A k \in 1..Len(pSent) : ~pSent[k].tools.present

C17_DiskAccessOnlyInSandbox ==
    (fPc = "done" /\ (fPath.slash \/ fPath.comps # <<>>)) =>
        /\ \A path \in fAccessed :
              Len(path) >= 1 /\ path[1] = "sb"
        /\ fResult = "security_error" => fAccessed = {}

\* C20: a request started by a scheduler job (background_tasks=None) never
\* ends in an exception and dispatches no smart-memory and no post-mortem
\* task, whether smart memory is enabled or not; once it has left the loop
\* it returns its final response.
C20_SchedulerJobReturns ==
    bCfg.background = "none" =>
        /\ bPc # "raised"
        /\ bDispatched = {}

(***************************************************************************)
(* Order properties of the context manager                                 *)
(***************************************************************************)

\* s[i..] can be read off t[j..] from left to right, skipping elements of t.
RECURSIVE SubseqFrom(_, _, _, _)
SubseqFrom(s, t, i, j) ==
    IF i > Len(s) THEN TRUE
    ELSE IF j > Len(t) THEN FALSE
    ELSE IF s[i] = t[j] THEN SubseqFrom(s, t, i + 1, j + 1)
    ELSE SubseqFrom(s, t, i, j + 1)

IsSubsequence(s, t) == SubseqFrom(s, t, 1, 1)

\* C21: for every msgs and max_tokens, the messages retained by prune keep
\* the relative order they had in msgs: the output is a subsequence of the
\* input.
C21_PruneKeepsOrder ==
    cmOp = "prune" => IsSubsequence(cmOut, cmMsgs)

\* C26: for every msgs and budgets m1 <= m2, the output of
\* rolling_window(msgs, m1) is a subsequence of the output of
\* rolling_window(msgs, m2).
C26_WindowMonotone ==
    cmOp = "window" =>
        \A m1 \in MaxTokensChoices :
            m1 <= cmMax => IsSubsequence(ProcessRollingWindow(cmMsgs, m1), cmOut)

\* A larger budget kept strictly more of the history, and the smaller one
\* had already kept some of it.
C26_Witness ==
    /\ cmOp = "window"
    /\ \E m1 \in MaxTokensChoices :
          /\ m1 < cmMax
          /\ Len(ProcessRollingWindow(cmMsgs, m1)) < Len(cmOut)
          /\ Len(ProcessRollingWindow(cmMsgs, m1)) > Len(SystemMsgs(cmMsgs))
          /\ Len(cmOut) < Len(cmMsgs)

(***************************************************************************)
(* Properties of the profile and playbook files                            *)
(***************************************************************************)

C23_ListingIsPerRequest == xForeign = {}

(***************************************************************************)
(* Properties of the SeenSet                                               *)
(***************************************************************************)

\* The calls the specification lists as mutating.
ListedAsMutating(c) ==
    \/ c.name \in {"execute", "manage_tasks", "update_profile", "learn_skill"}
    \/ /\ c.name = "file_system"
       /\ \E i \in 1..Len(c.args.pairs) :
             /\ c.args.pairs[i][1] = "operation"
             /\ c.args.pairs[i][2] \in {"write", "replace", "download", "delete",
                                         "move", "rename"}
    \/ /\ c.name = "knowledge_base"
       /\ \E i \in 1..Len(c.args.pairs) :
             /\ c.args.pairs[i][1] = "action"
             /\ c.args.pairs[i][2] \in {"ingest_document", "forget", "reset_all",
                                         "insert_fact"}

\* C24: every dispatched mutating tool call (execute; file_system write,
\* replace, download, delete, move or rename; ...) clears the SeenSet: a
\* read-only call that follows it, with no identical call in between, is
\* not blocked as redundant.
C24_MutationClearsSeenSet ==
    tPc \in {"run", "done"} =>
        \A j, k \in 1..Len(tCalls) :
            (/\ j < k
             /\ ListedAsMutating(tCalls[j])
             /\ ~ListedAsMutating(tCalls[k])
             /\ \A i \in (j + 1)..(k - 1) : tCalls[i] # tCalls[k])
            => [id |-> k, content |-> "redundant"] \notin
                   { tMsgs[n] : n \in 1..Len(tMsgs) }

(***************************************************************************)
(* Properties of swarm delegation                                          *)
(***************************************************************************)

\* C25: every task accepted by delegate_to_swarm eventually performs
\* exactly one scratchpad write under its output_key: the worker's final
\* string on success, a system alert when no node is available or the node
\* call fails; and the delegating call returns before any worker has run.
C25_EveryTaskWritesOnce ==
    /\ [](\A i \in DOMAIN wWrites :
            /\ Len(wWrites[i]) <= 1
            /\ \A n \in 1..Len(wWrites[i]) :
                  wWrites[i][n] \in {"result", "alert_offline", "alert_no_nodes"})
    /\ \A i \in 1..(MaxSwarmTasks + 1) :
          [](i \in DOMAIN wWorkers =>
                <>(/\ i \in DOMAIN wWorkers
                   /\ wWorkers[i].pc = "done"
                   /\ Len(wWrites[i]) = 1))
    /\ [][(wPc = "call" /\ wPc' = "returned") =>
            \A i \in DOMAIN wWorkers' :
                wWorkers'[i].pc = "created" /\ wWrites'[i] = <<>>]_vars

\* Three accepted tasks have ended, one with the result, one with the alert.
C25_Witness ==
    /\ Len(wWorkers) = MaxSwarmTasks + 1
    /\ \A i \in DOMAIN wWorkers : wWorkers[i].pc = "done"
    /\ wWrites[1] = <<"result">>
    /\ wWrites[2] = <<"alert_offline">>

(***************************************************************************)
(* Properties of the task tree                                             *)
(***************************************************************************)

C28_IntakeKeepsSystemOnce ==
    iPc = "taken" =>
        /\ Len(SelectSeq(iOut, IsNotSystem)) <= IntakeCap
        /\ SelectSeq(iOut, IsNotSystem) =
              LastN(SelectSeq(iMsgs, IsNotSystem), Len(SelectSeq(iOut, IsNotSystem)))
        /\ \A k \in 1..Len(iMsgs) :
              iMsgs[k].role = "system" =>
                  Cardinality({ n \in 1..Len(iOut) : iOut[n] = iMsgs[k] }) = 1

\* The nodes of the sequence s, as a set.
Range(s) == { s[i] : i \in 1..Len(s) }

\* C29: in one call to a pool of N nodes in which every node fails, the N
\* POSTs of the pool loop go to N different nodes, so that each node is
\* attempted exactly once, and main is contacted only after them; this holds
\* with a model hint that matches a node and with other calls advancing the
\* pool's round-robin index while each POST is awaited.
C29_EachNodeOnce ==
    /\ (rPc \in {"pool", "main", "done"} /\ rClass \in PoolKinds /\ rSize[rClass] > 0) =>
          /\ Len(rTried) = rPoolPosts
          /\ \A i, j \in 1..Len(rTried) : rTried[i] = rTried[j] => i = j
          /\ Range(rTried) \subseteq 1..rSize[rClass]
          /\ rMainPosts > 0 => AllNodesFailed
    /\ AllNodesFailed =>
          /\ rPoolPosts = rSize[rClass]
          /\ Range(rTried) = 1..rSize[rClass]

\* All three nodes of the worker pool have failed in the order 3, 2, 1, which
\* no call running alone produces: another call moved the round-robin index
\* during the first POST, and the pick after the second failure was the
\* tried node 3.
C29_Witness ==
    /\ AllNodesFailed /\ rClass = "worker" /\ rSize[rClass] = PoolNodes
    /\ rTried = <<3, 2, 1>>
    /\ rPc = "main"

\* The planner has just answered with a tree whose root is DONE on a turn
\* after the first: force_stop was not set when the planner was called
\* (agent.py:374) and is set now.
PlannerSignalledDone == lPc = "respond" /\ force_stop

\* After the planner has set force_stop no planner call is made.
NoPlannerCallAfterStop == [][(force_stop /\ lPc = "top") => lPc' # "respond"]_vars

\* C30: if on a turn after the first the merged task tree's root is DONE,
\* force_stop is set and the loop terminates immediately: what follows that
\* planner response schedules and runs no tool call, and no further planner
\* call is made.
C30_RootDoneStopsAtOnce ==
    [][/\ PlannerSignalledDone => (hRan' = hRan /\ tool_tasks' = <<>>)
       /\ (force_stop /\ lPc = "top") => lPc' # "respond"]_vars

\* The tool-role messages of the turn that carry the call id i.
AnswersTo(i) == { k \in 1..Len(tMsgs) : tMsgs[k].id = i }

\* The calls of the message up to the i-th that name the same tool as it.
IssuedUpTo(i) == { j \in 1..i : tCalls[j].name = tCalls[i].name }

\* agent.py:726-730: the i-th call is the one the usage cap rejects: its
\* tool has then been issued more often than the cap allows, and no earlier
\* call of the message was.
OverCap(i) ==
    tUsage[tCalls[i].name] + Cardinality(IssuedUpTo(i)) > MaxUses(tCalls[i].name)
CapRejected(i) == OverCap(i) /\ \A j \in 1..(i - 1) : ~OverCap(j)

\* C31: when the turn's tool processing is over (before the next upstream
\* call, or the end of the request), the message list holds for each tool
\* call id of the assistant message exactly one tool-role message with that
\* id, except for the call the usage cap rejected, which has none.
C31_EveryCallAnswered ==
    tPc = "done" =>
        \A i \in 1..Len(tCalls) :
            Cardinality(AnswersTo(i)) = IF CapRejected(i) THEN 0 ELSE 1

\* agent.py:536-538: the responder request about to be sent carries no
\* tools array.
SentWithoutTools == AtResponder /\ IsFinalGeneration

\* C32: if a responder request is sent without a tools array (the planner
\* said "none" or a final response was forced), the step that handles its
\* response schedules and runs no tool, whatever the response contains.
C32_NoToolsWithoutToolsArray ==
    [][SentWithoutTools => (hRan' = hRan /\ tool_tasks' = <<>>)]_vars

\* The user message of the client's request, which every working list of
\* StartLists holds.
ClientRequest == Msg("user", "request")

\* C33: the messages of every responder request posted in a turn, the retry
\* after an emergency prune included, hold the client's most recent user
\* message, also when user-role messages made by the agent follow it in the
\* working list.
C33_RequestAlwaysSent ==
    \A k \in 1..Len(pSent) :
        \E i \in 1..Len(pSent[k].messages) : pSent[k].messages[i] = ClientRequest

\* agent.py:386-387: the step in which request r takes the cached listing
\* as the sandbox_state of its turn.
ReusesListing(r) ==
    /\ r \in DOMAIN xPc
    /\ xPc[r] = "turn" /\ xIntent[r] /\ xCache.listing # -1
    /\ xPc'[r] = "llm"

\* C34: whenever a turn reuses the cached sandbox listing, no
\* sandbox-mutating call of any request has completed since that listing
\* was computed: the listing shows the sandbox as it is.
C34_ReusedListingIsCurrent ==
    [][\A r \in Requests : ReusesListing(r) => xCache.listing = xDisk]_vars

(***************************************************************************)
(* Properties of the profile                                               *)
(***************************************************************************)

\* C35: after two concurrent update or delete calls on different keys have
\* both returned, the stored profile reflects both: the updated key holds
\* the new value and the deleted key is gone.
C35_NoLostUpdate ==
    (\A t \in Updaters : t \in DOMAIN uPc /\ uPc[t] = "done") =>
        \A t \in Updaters :
            uFile[KeyOf(t)] = IF uOp[t] = "update" THEN "new" ELSE NoEntry

(***************************************************************************)
(* Properties of the admission slots                                       *)
(***************************************************************************)

\* Requests inside the `async with` block.
InBlock == aLoop + aCall

\* C36: every request that acquires a slot releases it exactly once on
\* every way out of the block (return, return of the streaming generator,
\* exception): the slots taken are those of the requests in the block, a
\* slot is given back exactly in the step in which a request leaves, and
\* every waiting request is admitted once running requests finish.
C36_SlotsNeverLeak ==
    /\ [](aSem >= 0 /\ aSem + InBlock = AgentSlots)
    /\ [][(InBlock' = InBlock - 1) <=> (aSem' = aSem + 1)]_vars
    /\ (aWaiting > 0) ~> (aWaiting = 0)

\* All requests are over, two of which had to wait for a slot, some having
\* left the block with a stream; every slot is free again.
C36_Witness ==
    /\ aDone = MaxRequests
    /\ aSem = AgentSlots
    /\ aWaiting = 0 /\ aStream = 0

(***************************************************************************)
(* Properties of unparsable arguments                                      *)
(***************************************************************************)

\* agent.py:733: the i-th call's argument string reaches json.loads: the
\* usage cap has let it and every call before it through.
Parsed(i) == \A j \in 1..i : ~OverCap(j)

\* agent.py:742  except Exception: json.loads raises on the i-th call.
InvalidJson(i) == ~tCalls[i].args.ok

\* The i-th call has an invocation among tool_tasks.
Scheduled(i) == \E k \in 1..Len(tMeta) : tMeta[k].id = i

\* The i-th call has exactly one tool message, which is the error about its
\* arguments, and no invocation.
RejectedAsInvalid(i) ==
    /\ ~Scheduled(i)
    /\ Cardinality(AnswersTo(i)) = 1
    /\ \A k \in AnswersTo(i) : tMsgs[k].content = "invalid_json"

\* A message all of whose calls carry unparsable arguments and pass the cap.
OnlyInvalidCalls == \A i \in 1..Len(tCalls) : InvalidJson(i) /\ Parsed(i)

\* What the loop leaves behind for the message, the critic not being asked.
AfterDispatch == Dispatch(TFresh, tCalls, [i \in 1..Len(tCalls) |-> "approved"], 1)

LastOf(msgs, role) ==
    LET S == { i \in 1..Len(msgs) : msgs[i].role = role }
    IN  IF S = {} THEN <<>> ELSE << msgs[CHOOSE i \in S : \A k \in S : k <= i] >>

\* m is a tool result of at most 1000 characters followed by the marker.
CutAndMarked(m) == m.role = "tool" /\ m.chars <= CutChars /\ m.marked

\* agent.py:589  the step that has just pruned: the request was answered
\* with the context overflow and the retry is not posted yet.
JustPruned == pPc = "retry"

\* C38: immediately after an emergency prune the working list is exactly
\* the system messages of the list before, its last user message, at most
\* one tool result, of at most 1000 characters of content plus the
\* truncation marker, and the user-role notice of the truncation at the end.
C38_EmergencyPruneShape ==
    JustPruned =>
        \E kept \in { pSent[Len(pSent)].working } :
        \E tool \in { SelectSeq(pMsgs, LAMBDA m : m.role = "tool") } :
            /\ Len(tool) <= 1
            /\ \A i \in 1..Len(tool) : CutAndMarked(tool[i])
            /\ pMsgs = SelectSeq(kept, IsSystemMsg) \o LastOf(kept, "user")
                          \o tool \o << TruncationAlert >>

\* A turn after a tool returned 3000 characters was pruned: the list holds
\* the system message, the request, the result cut to 1000 characters and
\* marked, and the notice.
C38_Witness ==
    /\ JustPruned
    /\ Len(pMsgs) = 4
    /\ pMsgs[2] = Msg("user", "request")
    /\ CutAndMarked(pMsgs[3]) /\ pMsgs[3].chars = CutChars
    /\ pMsgs[4] = TruncationAlert

(***************************************************************************)
(* Properties of the safety buffer                                         *)
(***************************************************************************)

\* agent.py:135-137  base_tokens: the estimate of the system messages and of
\* the last user message.
BaseTokens(ms) ==
    SumTokens(SystemMsgs(ms))
    + (IF LastUserIdx(ms) # 0 THEN EstimateTokens(ms[LastUserIdx(ms)].content) ELSE 0)

\* C39: whenever prune has to drop messages (the estimate of its input is
\* at or above max_tokens) and the system messages plus the last user
\* message fit within max_tokens - 500 estimated tokens, the estimate of
\* its output is at most max_tokens - 500.
C39_SafetyBufferStaysFree ==
    (/\ cmOp = "prune"
     /\ SumTokens(cmMsgs) >= cmMax
     /\ BaseTokens(cmMsgs) <= cmMax - SafetyBuffer) =>
        SumTokens(cmOut) <= cmMax - SafetyBuffer

(***************************************************************************)
(* Properties of the main loop's retries                                   *)
(***************************************************************************)

\* llm.py:271: the step posts to the main pool.
MainPost == rMainPosts' = rMainPosts + 1

\* The step is a main POST that failed with one of kinds: before the tenth
\* attempt the loop waits min(2^(attempt+1), 30) seconds and goes on with
\* the next attempt; the tenth failure is raised to the caller.
RetriesWithBackoff(kinds) ==
    (MainPost /\ rLast'.outcome \in kinds) =>
        /\ rAttempt < MainAttempts
        /\ rMainPosts' = rAttempt + 1
        /\ IF rAttempt < MainAttempts - 1
           THEN /\ rPc' = "main"
                /\ rAttempt' = rAttempt + 1
                /\ rWait' = Min(Pow2(rAttempt + 1), BackoffCap)
           ELSE /\ rPc' = "done" /\ rResult' = "raise"
                /\ rErr' = rLast'.outcome

\* The step is a main POST that failed with something else: the error is
\* raised to the caller at once.
RaisesAtOnce(kinds) ==
    (MainPost /\ rLast'.outcome \notin kinds \cup {"ok"}) =>
        (rPc' = "done" /\ rResult' = "raise" /\ rErr' = rLast'.outcome)

\* C40: on the main pool a connect, read, write or protocol error is
\* retried, waiting min(2^(attempt+1), 30) seconds after the attempt-th
\* failure (attempt counted from 0), for at most 10 attempts in total,
\* after which the error is raised to the caller; a timeout, like every
\* other failure, is raised at once.
C40_MainRetriesNetworkErrors ==
    [][/\ RetriesWithBackoff(TransientKinds)
       /\ RaisesAtOnce(TransientKinds)
       /\ rMainPosts' <= MainAttempts]_vars

\* The main pool failed ten times with a write error: the last wait was
\* the capped one and the error is raised.
C40_Witness ==
    /\ rPc = "done" /\ rResult = "raise" /\ rErr = "WriteError"
    /\ rAttempt = MainAttempts - 1
    /\ rMainPosts = MainAttempts
    /\ rWait = BackoffCap

\* C40 as stated: a timeout on the main pool is retried with the same
\* backoff as a connect, read, write or protocol error.
C40_MainRetriesTimeoutsToo ==
    [][/\ RetriesWithBackoff(TransientKinds \cup {"Timeout"})
       /\ rMainPosts' <= MainAttempts]_vars

====
